----------------------------- MODULE Completion -----------------------------
(***************************************************************************)
(* One request of the OpenAICompatibleAdapter (adapters.py): the response  *)
(* arrives piece by piece, or not to its end, and is read as a document.   *)
(*                                                                         *)
(* What the model writes is a sequence of tags and words; "open" is the    *)
(* begin of an svg element and "close" its end.                            *)
(***************************************************************************)
EXTENDS Naturals, Sequences, SequencesExt

CONSTANTS
    Waiting,     \* there is no outcome yet
    MaxText      \* bound: the tags and words that the model writes

ASSUME MaxText \in Nat

VARIABLES
    text,        \* what the model writes, ended by itself or by max_tokens
    streamed,    \* the stream option of the adapter
    body,        \* the events of the body that have arrived
    outcome      \* what generate() returns or raises

completionVars == <<text, streamed, body, outcome>>

----------------------------------------------------------------------------
(* The events of a body                                                    *)

Delta(piece) == [kind |-> "delta", text |-> piece]
\* A chunk may repeat the whole message, and a body without chunks is one.
Message(piece) == [kind |-> "message", text |-> piece]
\* Comments, roles and usage: no content in it.
Notice == [kind |-> "notice"]
EndOfStream == [kind |-> "done"]

Written(events) == FlattenSeq([i \in DOMAIN events |->
                      IF events[i].kind = "delta" THEN events[i].text ELSE <<>>])

----------------------------------------------------------------------------
(* Reading a response                                                      *)

Raised(class) == [raised |-> class]
Answered(document) == [document |-> document]

BeforeDone(events, i) == \A j \in 1 .. i : events[j].kind # "done"

\* Fault: a message is content wherever it comes.
CountsAnyMessage(events, i) ==
    BeforeDone(events, i) /\ events[i].kind \in {"delta", "message"}

\* Nothing counts after [DONE], and a message only when nothing came before it,
\* an empty delta included.
Counts(events, i) ==
    /\ BeforeDone(events, i)
    /\ \/ events[i].kind = "delta"
       \/ /\ events[i].kind = "message"
          /\ \A j \in 1 .. i - 1 : events[j].kind \notin {"delta", "message"}

\* The stream may also end without [DONE].
StreamContent(events) ==
    FlattenSeq([i \in DOMAIN events |->
                  IF Counts(events, i) THEN events[i].text ELSE <<>>])

MessageContent(events) == events[1].text

FirstOpen(content) == SelectInSeq(content, LAMBDA token : token = "open")
LastClose(content) == SelectLastInSeq(content, LAMBDA token : token = "close")

HasSvg(content) == FirstOpen(content) # 0 /\ FirstOpen(content) <= LastClose(content)

\* From the first <svg to the last </svg>.
ExtractSvg(content) == SubSeq(content, FirstOpen(content), LastClose(content))

Generated ==
    LET content == IF streamed THEN StreamContent(body) ELSE MessageContent(body)
    IN  IF HasSvg(content)
        THEN Answered(ExtractSvg(content)) ELSE Raised("RuntimeError")

----------------------------------------------------------------------------
(* The endpoint                                                            *)

CompletionInit ==
    /\ text \in UNION {[1 .. n -> {"open", "close", "word"}] : n \in 0 .. MaxText}
    /\ streamed \in BOOLEAN
    /\ body = <<>>
    /\ outcome = Waiting

Open == outcome = Waiting /\ \A i \in DOMAIN body : body[i].kind # "done"

Arrive(event) ==
    /\ Open
    /\ body' = Append(body, event)
    /\ UNCHANGED <<text, streamed, outcome>>

SendDelta ==
    /\ streamed /\ \A i \in DOMAIN body : body[i].kind # "message"
    /\ LET sent == Len(Written(body))
       IN  \E n \in (sent + 1) .. Len(text) : Arrive(Delta(SubSeq(text, sent + 1, n)))

\* At the begin: a role with empty content, or without.
SendNotice ==
    /\ streamed /\ body = <<>>
    /\ Arrive(Notice) \/ Arrive(Delta(<<>>))

\* The whole message: alone, or after its deltas.
SendMessage ==
    /\ \A i \in DOMAIN body : body[i].kind # "message"
    /\ Written(body) \in {<<>>, text}
    /\ Arrive(Message(text))

SendDone == streamed /\ Arrive(EndOfStream)

Respond(result) ==
    /\ outcome = Waiting
    /\ outcome' = result
    /\ UNCHANGED <<text, streamed, body>>

\* The body ends, for the adapter, also where it breaks off without a length; a
\* line that broke in the middle is no event, or no JSON.
EndBody ==
    \/ (streamed \/ body # <<>>) /\ Respond(Generated)
    \/ Respond(Raised("RuntimeError"))

\* HTTP errors and refused connections become RuntimeErrors.
RefuseRequest == body = <<>> /\ Respond(Raised("RuntimeError"))

\* A read that takes too long, a body shorter than its length, a wrong encoding.
BreakBody == \E class \in {"TimeoutError", "IncompleteRead", "UnicodeDecodeError"} :
                 Respond(Raised(class))

CompletionNext ==
    \/ SendDelta \/ SendNotice \/ SendMessage \/ SendDone
    \/ EndBody \/ RefuseRequest \/ BreakBody

CompletionSpec == CompletionInit /\ [][CompletionNext]_completionVars

----------------------------------------------------------------------------
(* Properties                                                              *)

Closings(content) == {i \in DOMAIN content : content[i] = "close"}

\* An answer is the document that the model wrote, neither doubled where a
\* message repeats the deltas nor shortened where the body broke off, although
\* the end of a stream is not required: only a text that closes an svg element
\* more than once can be taken for complete at an earlier closing.
AnswerIsModelsDocument ==
    (outcome # Waiting /\ "document" \in DOMAIN outcome) =>
        /\ HasSvg(text)
        /\ \/ outcome.document = ExtractSvg(text)
           \/ \E i \in Closings(text) :
                 /\ i # LastClose(text)
                 /\ outcome.document = SubSeq(text, FirstOpen(text), i)

=============================================================================
