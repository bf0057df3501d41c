------------------------------ MODULE Framing ------------------------------
(***************************************************************************)
(* One direction of a DAP connection below the messages: the threads that  *)
(* send (SessionImpl::send under sendMutex, ContentWriter::write), the     *)
(* stream of bytes between the two ends, which arrives in pieces of any    *)
(* size and may be cut anywhere, and the receiver's ContentReader, which   *)
(* finds the messages in it again.                                         *)
(*                                                                         *)
(* The bytes are the members of a small alphabet: the header's name is     *)
(* three of them, an end of line is one, numbers are written to the base   *)
(* Base, and a body may hold all of them.                                  *)
(***************************************************************************)
EXTENDS Naturals, Sequences

CONSTANTS
  Senders,   \* the threads of the sending end
  Bytes,     \* the alphabet
  Bodies,    \* the messages, as sequences of bytes
  Junk,      \* what a broken client may write between two messages
  Base,      \* of the numbers
  SizeLimit, \* size_t counts modulo SizeLimit
  MaxSends   \* bound on the messages that are begun

HeaderName == <<"Content", "-Length", ":">>
Ends       == <<"\r\n", "\r\n">>
Space      == " "
Blanks     == {Space, "\t"}
Brace      == "{"
Digits     == <<"0", "1", "2", "3", "4", "5", "6", "7", "8", "9">>
Nul        == "NUL"
Nobody     == "nobody"
None       == [by |-> Nobody, seq |-> 0, body |-> <<>>]

ASSUME BytesAssumption ==
  /\ Blanks \cup {"Content", "-Length", ":", "\r\n", Nul} \subseteq Bytes
  /\ \A d \in 1..10 : Digits[d] \in Bytes
\* Messages are JSON objects: never empty, and not taken for a header.
ASSUME BodiesAssumption ==
  \A b \in Bodies : b \in Seq(Bytes) /\ Len(b) \in 1..(SizeLimit - 1) /\ b[1] = Brace
ASSUME NumbersAssumption == Base \in 2..10 /\ SizeLimit \in Nat \ {0} /\ MaxSends \in Nat
ASSUME NobodyAssumption == Nobody \notin Senders

VARIABLES
  nextSeq,    \* SessionImpl::nextSeq
  sendMutex,  \* its holder
  sending,    \* per sender: what it is doing
  message,    \* per sender: the message it has made
  wire,       \* the bytes that are under way
  link,       \* the two sockets are connected
  at,         \* where the receiver is in ContentReader::read
  buf,        \* ContentReader::buf
  len,        \* the length read so far
  closed,     \* the receiver has closed its socket
  sent,       \* the messages that were written whole
  got,        \* the bodies that were handed to processMessage
  spoilt      \* how many messages were written when the client wrote junk

senderVars == <<nextSeq, sendMutex, sending, message, sent, spoilt>>
readerVars == <<at, buf, len, closed, got>>
vars == <<senderVars, readerVars, wire, link>>

NotSpoilt == MaxSends + 1

Init ==
  /\ nextSeq = 1 /\ sendMutex = Nobody
  /\ sending = [t \in Senders |-> "idle"]
  /\ message = [t \in Senders |-> None]
  /\ wire = <<>> /\ link = TRUE
  /\ at = "loop" /\ buf = <<>> /\ len = 0 /\ closed = FALSE
  /\ sent = <<>> /\ got = <<>> /\ spoilt = NotSpoilt

-----------------------------------------------------------------------------
(* The sending end.                                                        *)

\* std::to_string
Decimal[n \in Nat] ==
  IF n < Base THEN <<Digits[n + 1]>>
  ELSE Append(Decimal[n \div Base], Digits[(n % Base) + 1])

Header(body) == HeaderName \o <<Space>> \o Decimal[Len(body)] \o Ends

Goes(t, from, to) == sending[t] = from /\ sending' = [sending EXCEPT ![t] = to]

\* Mutant: the number is the count of the messages written, not reserved.
SerializeUnreserved(t) ==
  /\ nextSeq <= MaxSends
  /\ Goes(t, "idle", "made")
  /\ \E body \in Bodies :
       message' = [message EXCEPT ![t] = [by |-> t, seq |-> Len(sent) + 1, body |-> body]]
  /\ nextSeq' = nextSeq + 1
  /\ UNCHANGED <<sendMutex, sent, spoilt, readerVars, wire, link>>

\* A response or an event is made, with its number, outside the lock.
Serialize(t) ==
  /\ nextSeq <= MaxSends
  /\ Goes(t, "idle", "made")
  /\ \E body \in Bodies :
       message' = [message EXCEPT ![t] = [by |-> t, seq |-> nextSeq, body |-> body]]
  /\ nextSeq' = nextSeq + 1
  /\ UNCHANGED <<sendMutex, sent, spoilt, readerVars, wire, link>>

\* Mutant: sendMutex is not taken.
LockUnheld(t) ==
  /\ Goes(t, "made", "locked")
  /\ UNCHANGED <<nextSeq, sendMutex, message, sent, spoilt, readerVars, wire, link>>

Lock(t) ==
  /\ sendMutex = Nobody
  /\ Goes(t, "made", "locked")
  /\ sendMutex' = t
  /\ UNCHANGED <<nextSeq, message, sent, spoilt, readerVars, wire, link>>

\* Bytes are added to the stream, or vanish when there is none any more.
Puts(bytes) == wire' = IF link THEN wire \o bytes ELSE wire

WriteHeader(t) ==
  /\ Goes(t, "locked", "begun")
  /\ Puts(Header(message[t].body))
  /\ UNCHANGED <<nextSeq, sendMutex, message, sent, spoilt, readerVars, link>>

WriteBody(t) ==
  /\ Goes(t, "begun", "idle")
  /\ Puts(message[t].body)
  /\ sent' = IF link THEN Append(sent, message[t]) ELSE sent
  /\ message' = [message EXCEPT ![t] = None]
  /\ sendMutex' = Nobody
  /\ UNCHANGED <<nextSeq, spoilt, readerVars, link>>

\* The writer is closed, or a write fails: send returns false.
SendFails(t) ==
  /\ ~link
  /\ sending[t] \in {"locked", "begun"}
  /\ sending' = [sending EXCEPT ![t] = "idle"]
  /\ message' = [message EXCEPT ![t] = None]
  /\ sendMutex' = Nobody
  /\ UNCHANGED <<nextSeq, sent, spoilt, readerVars, wire, link>>

\* A client that does not keep to the protocol, once.
Spoil ==
  /\ spoilt = NotSpoilt
  /\ link /\ sendMutex = Nobody
  /\ \E bytes \in Junk : Puts(bytes)
  /\ spoilt' = Len(sent)
  /\ UNCHANGED <<nextSeq, sendMutex, sending, message, sent, readerVars, link>>

\* The connection is lost; a part of what was under way may still arrive.
Cut ==
  /\ link
  /\ link' = FALSE
  /\ \E n \in 0..Len(wire) : wire' = SubSeq(wire, 1, n)
  /\ UNCHANGED <<senderVars, readerVars>>

-----------------------------------------------------------------------------
(* The receiver: getPayload while the socket is open.                      *)

\* What the label asks buffer() for.
Wanted ==
  CASE at = "name"              -> Len(HeaderName)
    [] at = "ends"              -> Len(Ends)
    [] at \in {"blank", "digit"} -> 1
    [] at = "body"              -> len
    [] OTHER                    -> 0

\* A read inside buffer(): at most the bytes that are missing.
Buffer ==
  /\ Len(buf) < Wanted
  /\ wire # <<>>
  /\ \E n \in 1..Len(wire) :
       /\ n <= Wanted - Len(buf)
       /\ buf' = buf \o SubSeq(wire, 1, n)
       /\ wire' = SubSeq(wire, n + 1, Len(wire))
  /\ UNCHANGED <<senderVars, link, at, len, closed, got>>

Buffered  == at # "loop" /\ at # "ended" /\ Len(buf) >= Wanted
Exhausted == Len(buf) < Wanted /\ wire = <<>> /\ ~link

Pops(n) == buf' = SubSeq(buf, n + 1, Len(buf))
Continues(to) == at' = to /\ UNCHANGED <<senderVars, wire, link, closed, got>>

\* Mutant: kIgnore, the default of OnInvalidData; the reader scans on.
BadHeaderIgnored ==
  /\ at' = "name"
  /\ Pops(1)
  /\ UNCHANGED <<senderVars, wire, link, closed, len, got>>

\* Closing the socket drops what is under way, for both ends.
BadHeader ==
  /\ at' = "loop" /\ closed' = TRUE
  /\ link' = FALSE /\ wire' = <<>>
  /\ UNCHANGED <<senderVars, buf, len, got>>

\* while (reader.isOpen()): a reset connection may be found closed at once.
Loop ==
  /\ at = "loop"
  /\ \/ ~closed /\ Continues("name") /\ len' = 0 /\ UNCHANGED buf
     \/ ~link /\ Continues("ended") /\ UNCHANGED <<buf, len>>

Matches(bytes) == Buffered /\ SubSeq(buf, 1, Wanted) = bytes
Mismatches(bytes) == Exhausted \/ (Buffered /\ SubSeq(buf, 1, Wanted) # bytes)

Name ==
  /\ at = "name"
  /\ \/ Matches(HeaderName) /\ Pops(Wanted) /\ Continues("blank") /\ UNCHANGED len
     \/ Mismatches(HeaderName) /\ BadHeader

\* matchAny finds the terminator of its own string: a Nul ends a loop and is gone.
Skips == Buffered /\ buf[1] = Nul /\ Pops(1)
Stops(set) == Exhausted \/ (Buffered /\ buf[1] \notin set \cup {Nul})

Blank ==
  /\ at = "blank"
  /\ UNCHANGED len
  /\ \/ Buffered /\ buf[1] \in Blanks /\ Pops(1) /\ Continues("blank")
     \/ Skips /\ Continues("digit")
     \/ Stops(Blanks) /\ UNCHANGED buf /\ Continues("digit")

Numerals == {Digits[d] : d \in 1..Base}
Numeral(c) == (CHOOSE d \in 1..Base : Digits[d] = c) - 1

\* A header without a length, or with none, is passed over.
AfterLength == IF len = 0 THEN "loop" ELSE "ends"

Digit ==
  /\ at = "digit"
  /\ \/ /\ Buffered /\ buf[1] \in Numerals
        /\ len' = (len * Base + Numeral(buf[1])) % SizeLimit
        /\ Pops(1)
        /\ Continues("digit")
     \/ Skips /\ UNCHANGED len /\ Continues(AfterLength)
     \/ Stops(Numerals) /\ UNCHANGED <<buf, len>> /\ Continues(AfterLength)

EndOfHeader ==
  /\ at = "ends"
  /\ \/ Matches(Ends) /\ Pops(Wanted) /\ Continues("body") /\ UNCHANGED len
     \/ Mismatches(Ends) /\ BadHeader

\* Mutant: the result of buffer() is not looked at.
BodyUnchecked ==
  /\ at = "body"
  /\ at' = "loop"
  /\ UNCHANGED <<senderVars, wire, link, closed, len>>
  /\ \/ Buffered /\ Pops(len) /\ got' = Append(got, SubSeq(buf, 1, len))
     \/ Exhausted /\ buf' = <<>> /\ got' = Append(got, buf)

\* A body that is cut off is given up, what there is of it stays in buf.
Body ==
  /\ at = "body"
  /\ at' = "loop"
  /\ UNCHANGED <<senderVars, wire, link, closed, len>>
  /\ \/ Buffered /\ Pops(len) /\ got' = Append(got, SubSeq(buf, 1, len))
     \/ Exhausted /\ UNCHANGED <<buf, got>>

Receiver == Loop \/ Buffer \/ Name \/ Blank \/ Digit \/ EndOfHeader \/ Body

Sender(t) == Serialize(t) \/ Lock(t) \/ WriteHeader(t) \/ WriteBody(t) \/ SendFails(t)

Next == (\E t \in Senders : Sender(t)) \/ Spoil \/ Cut \/ Receiver

\* The receiver is a thread of its own; nobody has to send.
Spec == Init /\ [][Next]_vars /\ WF_vars(Receiver)

-----------------------------------------------------------------------------
(* Junk.                                                                   *)

\* Behind position p the bytes s hold something else than w.
Contradicts(s, p, w) == \E i \in 1..Len(w) : p + i <= Len(s) /\ s[p + i] # w[i]

\* From q on, ContentReader::read takes m blanks for blanks, the k numerals
\* behind d for the length, and goes on at e.
ReadsLength(s, q, m, d, k, e) ==
  /\ q + m < Len(s) /\ d + k < Len(s)
  /\ \A i \in 1..m : s[q + i] \in Blanks
  /\ s[q + m + 1] \notin Blanks
  /\ d = q + m + (IF s[q + m + 1] = Nul THEN 1 ELSE 0)
  /\ \A i \in 1..k : s[d + i] \in Numerals
  /\ s[d + k + 1] \notin Numerals
  /\ e = d + k + (IF s[d + k + 1] = Nul THEN 1 ELSE 0)

\* The length after each of them.
Lengths(s, d, k, a) ==
  a[0] = 0 /\ \A i \in 1..k : a[i] = (a[i - 1] * Base + Numeral(s[d + i])) % SizeLimit

\* A reader that looks for a header at p meets bytes it does not accept, and
\* takes none for a body before that.
Refused(s, p) ==
  \/ Contradicts(s, p, HeaderName)
  \/ \E m, d, k, e \in 0..Len(s) :
       /\ ReadsLength(s, p + Len(HeaderName), m, d, k, e)
       /\ \E a \in [0..k -> 0..(SizeLimit - 1)] :
            /\ Lengths(s, d, k, a)
            /\ Contradicts(s, e, IF a[k] = 0 THEN HeaderName ELSE Ends)

\* Without it what was sent after the junk may look like the rest of it.
ASSUME JunkAssumption == \A j \in Junk : j \in Seq(Bytes) /\ Refused(j, 0)

-----------------------------------------------------------------------------
(* Properties.                                                             *)

Message == [by : Senders, seq : 1..MaxSends, body : Bodies]

\* Every variable keeps its type; and what read() hands on is a message of the
\* protocol, never a piece of one or the bytes of two, wherever the stream is cut
\* and whatever is written between the messages (the length and the body in
\* ContentReader::read, its buffer()).
TypeOK ==
  /\ nextSeq \in 1..(MaxSends + 1) /\ sendMutex \in Senders \cup {Nobody}
  /\ sending \in [Senders -> {"idle", "made", "locked", "begun"}]
  /\ message \in [Senders -> Message \cup {None}]
  /\ sent \in Seq(Message) /\ spoilt \in 0..NotSpoilt
  /\ wire \in Seq(Bytes) /\ link \in BOOLEAN
  /\ at \in {"loop", "name", "blank", "digit", "ends", "body", "ended"}
  /\ buf \in Seq(Bytes) /\ len \in 0..(SizeLimit - 1) /\ closed \in BOOLEAN
  /\ got \in Seq(Bodies)

SentBodies == [i \in 1..Len(sent) |-> sent[i].body]

\* The framing over the stream of bytes is a stream of messages: whatever the
\* pieces in which it arrives and wherever it is cut, bodies are read whole, in
\* the order in which they were written, each once, and without waiting for
\* bytes of the next one; a receiver that cannot go on ends
\* (ContentReader::read, ContentWriter::write, SessionImpl::send).
Stream == INSTANCE MessageStream
  WITH written <- SentBodies, clean <- spoilt = NotSpoilt, up <- link, over <- at = "ended"
ImplementsStream == Stream!Spec

\* After data that is no message nothing is taken for a message any more: what
\* kClose is set for (QSCore.cpp:393-395, ContentReader::badHeader).
NothingAfterJunk == Len(got) <= spoilt

\* Numbers are taken outside sendMutex, so messages may pass each other between
\* their number and the wire; but no number is used twice, and only another
\* thread's message can overtake: one thread's are numbered as they are written
\* (nextSeq++ and SessionImpl::send).
OvertakenByOthersOnly ==
  \A i, j \in 1..Len(sent) :
    i < j /\ sent[i].seq >= sent[j].seq => sent[i].by # sent[j].by /\ sent[i].seq # sent[j].seq
==============================================================================
