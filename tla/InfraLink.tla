------------------------------ MODULE InfraLink ------------------------------
(***************************************************************************)
(* The bounded bookkeeping of crates/infrastructure-link: the frames of    *)
(* the Broker--CA link, the collection of sent but unacknowledged frames   *)
(* (PendingFrames) and the FIFO deduplication window (DedupWindow).        *)
(*                                                                         *)
(* A MessageId is a random 128-bit value in the code.  What the protocol   *)
(* uses is that a new identifier differs from all earlier ones, so here it *)
(* is a positive number drawn from a counter; NoId is never drawn.         *)
(***************************************************************************)
EXTENDS Naturals, Sequences

\* The absent identifier: `None` where the code has an Option<MessageId>.
NoId == 0

\* FrameKind; the payload of an Ack, or of an authentication frame, is not looked at.
FrameKinds == {"Request", "Delivery", "Ack", "AuthChallenge", "AuthResponse", "AuthOk"}

Frame(kind, id, payload) == [kind |-> kind, id |-> id, payload |-> payload]

Ids(frames) == {frames[i].id : i \in DOMAIN frames}

(***************************************************************************)
(* PendingFrames: `order` is the sequence itself and `frames` is its set   *)
(* of identifiers, so snapshot() is the sequence and is_empty() is "= <<>>".*)
(***************************************************************************)
IsFull(pending, maximum) == Len(pending) >= maximum

Remaining(pending, maximum) == IF Len(pending) >= maximum THEN 0 ELSE maximum - Len(pending)

\* acknowledge: drops the frame with this identifier, if there is one.
Acknowledge(pending, id) ==
    IF \E i \in DOMAIN pending : pending[i].id = id
    THEN LET k == CHOOSE i \in DOMAIN pending : pending[i].id = id
         IN  SubSeq(pending, 1, k - 1) \o SubSeq(pending, k + 1, Len(pending))
    ELSE pending

(***************************************************************************)
(* DedupWindow: the acquired identifiers, oldest first.                    *)
(***************************************************************************)
Contains(window, id) == \E i \in DOMAIN window : window[i] = id

\* Mutant: the oldest identifier is not evicted.
DedupInsert_NoEviction(window, maximum, id) ==
    IF Contains(window, id) THEN window ELSE Append(window, id)

\* insert, for maximum > 0: the oldest identifier is evicted when the window is full.
DedupInsert(window, maximum, id) ==
    IF Contains(window, id) THEN window
    ELSE IF Len(window) = maximum THEN Append(Tail(window), id)
    ELSE Append(window, id)
==============================================================================
