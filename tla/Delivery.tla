------------------------------- MODULE Delivery -------------------------------
(***************************************************************************)
(* What the event forwarder promises to whoever hands it an event, without *)
(* goroutines, channels, sizes and files: events wait in the order of      *)
(* their admission, the oldest of them are transmitted as a batch, and a   *)
(* batch is given up only by a final answer; without one it is transmitted *)
(* again, in the same order and before anything younger.  An event that    *)
(* leaves otherwise is counted, and a process that ends takes with it only *)
(* what was not kept.  Delivery is at least once: a batch whose answer was *)
(* lost, or whose acknowledgement was not yet kept, comes again.           *)
(***************************************************************************)
EXTENDS Integers, Sequences, Functions

CONSTANT Events

VARIABLES
  up,       \* the process runs; otherwise it is down or recovering
  waiting,  \* events not under transmission, oldest first
  sending,  \* the batch under transmission, older than all that wait
  answer,   \* what is known of it: "none", "accepted", "hopeless" or "unclear"
  kept,     \* events that outlive the process
  lost      \* how many events this process has given up

vars == <<up, waiting, sending, answer, kept, lost>>

Init ==
  /\ ~up /\ waiting = <<>> /\ sending = <<>> /\ answer = "none"
  /\ kept = {} /\ lost = 0

Admit(e) ==
  /\ up
  /\ waiting' = Append(waiting, e)
  /\ UNCHANGED <<up, sending, answer, kept, lost>>

\* An event that is not admitted is counted like one that is given up.
Refuse ==
  /\ up
  /\ lost' = lost + 1
  /\ UNCHANGED <<up, waiting, sending, answer, kept>>

Transmit ==
  /\ up
  /\ sending = <<>>
  /\ \E n \in 1 .. Len(waiting) :
       /\ sending' = SubSeq(waiting, 1, n)
       /\ waiting' = SubSeq(waiting, n + 1, Len(waiting))
  /\ UNCHANGED <<up, answer, kept, lost>>

Answered ==
  /\ sending # <<>>
  /\ answer = "none"
  /\ answer' \in {"accepted", "hopeless", "unclear"}
  /\ UNCHANGED <<up, waiting, sending, kept, lost>>

\* An accepted batch leaves; a hopeless one leaves and is counted.
Settle ==
  /\ up
  /\ \/ answer = "accepted" /\ UNCHANGED lost
     \/ answer = "hopeless" /\ lost' = lost + Len(sending)
  /\ sending' = <<>> /\ answer' = "none"
  /\ kept' = kept \ Range(sending)
  /\ UNCHANGED <<up, waiting>>

Retry ==
  /\ up
  /\ answer = "unclear"
  /\ sending' = <<>> /\ answer' = "none"
  /\ waiting' = sending \o waiting
  /\ UNCHANGED <<up, kept, lost>>

\* A run of the waiting events, never one under transmission, makes room.
Shed ==
  /\ up
  /\ \E n \in 0 .. Len(waiting) : \E k \in 0 .. (Len(waiting) - n) :
       /\ waiting' = SubSeq(waiting, 1, n) \o SubSeq(waiting, n + k + 1, Len(waiting))
       /\ lost' = lost + k
  /\ UNCHANGED <<up, sending, answer, kept>>

\* Only events still in hand become kept; some are left out for room.
Keep ==
  /\ up
  /\ \E new \in SUBSET (Range(sending) \cup Range(waiting)), out \in SUBSET Events :
       kept' = (kept \ out) \cup new
  /\ UNCHANGED <<up, waiting, sending, answer, lost>>

Ends ==
  /\ up' = FALSE
  /\ waiting' = <<>> /\ sending' = <<>> /\ answer' = "none" /\ lost' = 0
  /\ UNCHANGED kept

\* Recovery, which also finds events that were settled before the end.
Recover(e) ==
  /\ ~up
  /\ waiting' = Append(waiting, e)
  /\ UNCHANGED <<up, sending, answer, kept, lost>>

\* What cannot be read, or no longer fits, is not kept.
RecoverLess ==
  /\ ~up
  /\ kept' \in SUBSET kept
  /\ lost' \in {lost, lost + 1}
  /\ UNCHANGED <<up, waiting, sending, answer>>

\* A process starts with everything that was kept.
Starts ==
  /\ ~up
  /\ kept \subseteq Range(waiting)
  /\ up' = TRUE
  /\ UNCHANGED <<waiting, sending, answer, kept, lost>>

Next ==
  \/ \E e \in Events : Admit(e) \/ Recover(e)
  \/ Refuse \/ Transmit \/ Answered \/ Settle \/ Retry \/ Shed \/ Keep
  \/ Ends \/ RecoverLess \/ Starts

Spec == Init /\ [][Next]_vars
=============================================================================
