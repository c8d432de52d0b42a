----------------------------- MODULE BulkWriter -----------------------------
(***************************************************************************)
(* The bulk writer of server publications (docmonk-backends/src/bulk.rs):   *)
(* batches bounded in actions and bytes, whole requests that are rejected,  *)
(* items of one request that fail on their own, and the retries of both.    *)
(* The server may answer anything at any time.                              *)
(***************************************************************************)
EXTENDS Integers, Sequences, FiniteSets, SequencesExt

CONSTANTS
    SizeOf,         \* the bytes of each action, in the order they are pushed
    MaxActions, MaxBytes, MaxRetries

ASSUME BulkAssumption ==
    /\ SizeOf \in Seq(Nat \ {0})
    /\ MaxActions \in Nat \ {0} /\ MaxBytes \in Nat \ {0} /\ MaxRetries \in Nat

VARIABLES
    pushed,         \* actions pushed so far
    waiting,        \* pending: serialized, not sent
    sending,          \* what the running flush still has to send
    attempt,        \* retries of the running flush
    bulkTarget,     \* actions per request
    bulkStep,       \* push, flush, or how the writer ended
    resume,         \* what the running flush was called for
    stored,         \* actions the server has carried out
    refused,        \* actions that failed for good
    largest         \* the largest request, in actions and bytes

bulkVars == <<pushed, waiting, sending, attempt, bulkTarget, bulkStep, resume,
              stored, refused, largest>>

Actions == 1 .. Len(SizeOf)
BytesOf(s) == FoldSeq(LAMBDA a, b : SizeOf[a] + b, 0, s)
AtMost(a, b) == IF a < b THEN a ELSE b
AtLeast(a, b) == IF a > b THEN a ELSE b

\* A request never exceeds the limits, unless one action does by itself.
BulkBounded ==
    /\ bulkTarget \in 1 .. MaxActions
    /\ attempt \in Nat
    /\ largest[1] <= MaxActions
    /\ Len(waiting) <= MaxActions
    /\ BytesOf(waiting) > MaxBytes => Len(waiting) = 1
    /\ largest[2] > MaxBytes => \E a \in Actions : SizeOf[a] = largest[2]

BulkInit ==
    /\ pushed = 0 /\ waiting = <<>> /\ sending = <<>> /\ attempt = 0
    /\ bulkTarget = MaxActions /\ bulkStep = "push" /\ resume = "push"
    /\ stored = {} /\ refused = {} /\ largest = <<0, 0>>

\* Mutant: only the number of actions is looked at.
WouldExceedActions(a) == Len(waiting) + 1 > bulkTarget

WouldExceed(a) ==
    /\ waiting # <<>>
    /\ Len(waiting) + 1 > bulkTarget \/ BytesOf(waiting) + SizeOf[a] > MaxBytes

\* push: what does not fit is flushed first, what fills the batch after.
Push ==
    LET a == pushed + 1
        kept == IF WouldExceed(a) THEN <<>> ELSE waiting
        full == Len(kept) + 1 >= bulkTarget
    IN
    /\ bulkStep = "push" /\ pushed < Len(SizeOf)
    /\ IF WouldExceed(a)
       THEN /\ sending' = waiting /\ waiting' = <<>> /\ bulkStep' = "flush"
            /\ UNCHANGED pushed
       ELSE /\ pushed' = a
            /\ waiting' = IF full THEN <<>> ELSE Append(waiting, a)
            /\ sending' = IF full THEN Append(waiting, a) ELSE <<>>
            /\ bulkStep' = IF full THEN "flush" ELSE "push"
    /\ attempt' = 0 /\ resume' = "push"
    /\ UNCHANGED <<bulkTarget, stored, refused, largest>>

\* finish: the last flush.
LastFlush ==
    /\ bulkStep = "push" /\ pushed = Len(SizeOf)
    /\ sending' = waiting /\ waiting' = <<>> /\ attempt' = 0
    /\ bulkStep' = "flush" /\ resume' = "finish"
    /\ UNCHANGED <<pushed, bulkTarget, stored, refused, largest>>

FlushDone ==
    /\ bulkStep = "flush" /\ sending = <<>>
    /\ bulkStep' = IF resume = "push" THEN "push"
                   ELSE IF refused = {} THEN "ok" ELSE "error"
    /\ UNCHANGED <<pushed, waiting, sending, attempt, bulkTarget, resume, stored,
                   refused, largest>>

Sent == SubSeq(sending, 1, AtMost(Len(sending), bulkTarget))
Rest == SubSeq(sending, AtMost(Len(sending), bulkTarget) + 1, Len(sending))

\* record_bulk.
Requested ==
    /\ bulkStep = "flush" /\ sending # <<>>
    /\ largest' = <<AtLeast(largest[1], Len(Sent)), AtLeast(largest[2], BytesOf(Sent))>>
    /\ UNCHANGED <<pushed, waiting, resume>>

\* Mutant: a budget that ran out starts again.
RejectedAgain ==
    /\ Requested
    /\ bulkTarget' = AtLeast(bulkTarget \div 2, 1)
    /\ attempt' = IF attempt >= MaxRetries THEN 0 ELSE attempt + 1
    /\ UNCHANGED <<sending, stored, refused, bulkStep>>

\* 413 or 429 for the whole request: half the target, and again.
RequestRejected ==
    /\ Requested
    /\ IF attempt >= MaxRetries /\ bulkTarget = 1
       THEN bulkStep' = "error" /\ UNCHANGED <<bulkTarget, attempt>>
       ELSE /\ bulkTarget' = AtLeast(bulkTarget \div 2, 1)
            /\ attempt' = attempt + 1
            /\ UNCHANGED bulkStep
    /\ UNCHANGED <<sending, stored, refused>>

\* Any other failure of the request; the server may have carried it out.
RequestFails ==
    /\ Requested
    /\ \E done \in {{}, ToSet(Sent)} : stored' = stored \cup done
    /\ bulkStep' = "error"
    /\ UNCHANGED <<sending, attempt, bulkTarget, refused>>

AllStored ==
    /\ Requested
    /\ stored' = stored \cup ToSet(Sent)
    /\ bulkTarget' = AtMost(bulkTarget * 2, MaxActions)
    /\ sending' = Rest
    /\ UNCHANGED <<attempt, bulkStep, refused>>

\* Mutant: what is sent again replaces what was still to be sent.
LeftOnly(retry) == retry

\* What is still to be sent after a request with failed items.
Left(retry) == retry \o Rest

\* Actions in the order they were pushed, which is that of every batch.
InOrder(A) ==
    [n \in 1 .. Cardinality(A) |->
        CHOOSE a \in A : Cardinality({b \in A : b <= a}) = n]

\* Some items fail: those refused for now are sent again, the others never.
ItemsFail ==
    \E later, never \in SUBSET ToSet(Sent) :
      LET again == IF attempt < MaxRetries THEN later ELSE {}
          retry == InOrder(again)
      IN
      /\ Requested
      /\ later \cap never = {} /\ later \cup never # {}
      /\ stored' = stored \cup (ToSet(Sent) \ (later \cup never))
      /\ refused' = refused \cup never \cup (later \ again)
      /\ attempt' = IF retry # <<>> THEN attempt + 1 ELSE attempt
      /\ sending' = Left(retry)
      /\ UNCHANGED <<bulkTarget, bulkStep>>

BulkNext ==
    \/ Push \/ LastFlush \/ FlushDone
    \/ RequestRejected \/ RequestFails \/ AllStored \/ ItemsFail

BulkSpec == BulkInit /\ [][BulkNext]_bulkVars /\ WF_bulkVars(BulkNext)

-----------------------------------------------------------------------------
(* Every action pushed so far is stored, refused, waiting or being sent: no  *)
(* split, retry or rejection loses one; a writer that reports success has    *)
(* stored them all.                                                          *)
NoActionLost ==
    bulkStep # "error" =>
        /\ 1 .. pushed = stored \cup refused \cup ToSet(waiting) \cup ToSet(sending)
        /\ bulkStep = "ok" => stored = Actions

(* A flush ends, whatever the server answers: the budget of retries and the  *)
(* halving of the target run out.                                            *)
BulkEnds == <>(bulkStep \in {"ok", "error"})
=============================================================================
