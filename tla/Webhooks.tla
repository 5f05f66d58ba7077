------------------------------ MODULE Webhooks ------------------------------
(***************************************************************************)
(* Deliveries of a webhook and the requests that race with them            *)
(* (api/v1/webhooks.py, db/webhook.py).  A delivery works on the copy of   *)
(* the row that it loaded before it called the receiver; what it changed   *)
(* in the copy, and only that, is written behind the call.                 *)
(***************************************************************************)
EXTENDS Naturals

CONSTANT WhDelivery  \* calls of _deliver_webhook

VARIABLES
  whRow,       \* the row: there, enabled, which secret, and the two counts
  whCopy,      \* the copy that each delivery has of it
  whAt,        \* idle, waiting for the receiver, or done
  whBy,        \* whether it was triggered or is a test
  whRecorded,  \* the rows of webhook_deliveries: how many for each end
  whLasting,   \* the session of a request lasts until its background tasks are done
  whSet,       \* what the last request of the user set
  whOverlapped \* two deliveries waited for the receiver at once

whVars == <<whRow, whCopy, whAt, whBy, whRecorded, whLasting, whSet, whOverlapped>>

\* The receiver answers with a status below 400, or from 400 on, or not at all.
WhEnd == {"accepted", "refused", "error"}

WhNew == [there |-> TRUE, enabled |-> TRUE, secret |-> 0, delivered |-> 0, failed |-> 0]

\* Whether the session lasts depends on the version of the framework: from 0.106 to
\* 0.117 it is closed before the background tasks of its request run.
WhInit ==
  /\ whRow = WhNew /\ whSet = [enabled |-> TRUE, secret |-> 0]
  /\ whCopy = [d \in WhDelivery |-> WhNew]
  /\ whAt = [d \in WhDelivery |-> "idle"]
  /\ whBy = [d \in WhDelivery |-> "trigger"]
  /\ whRecorded = [e \in WhEnd |-> 0]
  /\ whLasting \in BOOLEAN
  /\ whOverlapped = FALSE

\* update_webhook, for is_enabled, and rotate_secret.
WhUpdate(enabled) ==
  /\ whRow.there
  /\ whRow' = [whRow EXCEPT !.enabled = enabled]
  /\ whSet' = [whSet EXCEPT !.enabled = enabled]
  /\ UNCHANGED <<whCopy, whAt, whBy, whRecorded, whLasting, whOverlapped>>

WhRotate ==
  /\ whRow.there /\ whRow.secret = 0
  /\ whRow' = [whRow EXCEPT !.secret = @ + 1]
  /\ whSet' = [whSet EXCEPT !.secret = @ + 1]
  /\ UNCHANGED <<whCopy, whAt, whBy, whRecorded, whLasting, whOverlapped>>

\* The records of its deliveries go with a webhook.
WhDelete ==
  /\ whRow.there
  /\ whRow' = [whRow EXCEPT !.there = FALSE]
  /\ whRecorded' = [e \in WhEnd |-> 0]
  /\ UNCHANGED <<whCopy, whAt, whBy, whLasting, whSet, whOverlapped>>

\* trigger_webhook skips a webhook that is disabled; test_webhook does not.
WhDeliver(d, by) ==
  /\ whRow.there /\ whAt[d] = "idle"
  /\ by = "trigger" => whRow.enabled
  /\ whCopy' = [whCopy EXCEPT ![d] = whRow]
  /\ whAt' = [whAt EXCEPT ![d] = "waiting"]
  /\ whBy' = [whBy EXCEPT ![d] = by]
  /\ whOverlapped' = (whOverlapped \/ \E e \in WhDelivery : whAt[e] = "waiting")
  /\ UNCHANGED <<whRow, whRecorded, whLasting, whSet>>

\* Mutant: all columns of the copy are written.
WhCountedWhole(copy, end) ==
  IF end = "error" THEN [copy EXCEPT !.failed = @ + 1] ELSE [copy EXCEPT !.delivered = @ + 1]

\* _deliver_webhook, behind the call: the count of the copy goes up by one, that of
\* deliveries for every answer.  The flush fails when the row is gone, and after the
\* session was closed nothing is committed.
WhCounted(copy, end) ==
  IF end = "error" THEN [whRow EXCEPT !.failed = copy.failed + 1]
                   ELSE [whRow EXCEPT !.delivered = copy.delivered + 1]

WhEnds(d, end) ==
  /\ whAt[d] = "waiting"
  /\ whAt' = [whAt EXCEPT ![d] = "done"]
  /\ IF whRow.there /\ (whBy[d] = "trigger" \/ whLasting)
       THEN /\ whRow' = WhCounted(whCopy[d], end)
            /\ whRecorded' = [whRecorded EXCEPT ![end] = @ + 1]
       ELSE UNCHANGED <<whRow, whRecorded>>
  /\ UNCHANGED <<whCopy, whBy, whLasting, whSet, whOverlapped>>

WhNext ==
  \/ \E b \in BOOLEAN : WhUpdate(b)
  \/ WhRotate \/ WhDelete
  \/ \E d \in WhDelivery :
       \/ \E by \in {"trigger", "test"} : WhDeliver(d, by)
       \/ \E end \in WhEnd : WhEnds(d, end)
-----------------------------------------------------------------------------
WhRowType == [there : BOOLEAN, enabled : BOOLEAN, secret : 0..1, delivered : Nat, failed : Nat]

WhTypeOK ==
  /\ whRow \in WhRowType /\ whCopy \in [WhDelivery -> WhRowType]
  /\ whSet \in [enabled : BOOLEAN, secret : 0..1]
  /\ whAt \in [WhDelivery -> {"idle", "waiting", "done"}]
  /\ whBy \in [WhDelivery -> {"trigger", "test"}]
  /\ whRecorded \in [WhEnd -> Nat]
  /\ whLasting \in BOOLEAN /\ whOverlapped \in BOOLEAN

\* What the user set last stays, whatever the deliveries that loaded the row before
\* write behind it.
WhUserWins == whRow.enabled = whSet.enabled /\ whRow.secret = whSet.secret

\* The counts are those of the history.  Of deliveries that overlap some are lost from
\* the counts, for they add to what they loaded; then a count is too low, but it is
\* neither zero nor too high.
WhCounts ==
  LET answers == whRecorded["accepted"] + whRecorded["refused"]
      Agree(count, n) == IF whOverlapped THEN count <= n /\ (n > 0 => count > 0) ELSE count = n
  IN whRow.there => Agree(whRow.delivered, answers) /\ Agree(whRow.failed, whRecorded["error"])

WhSound == WhUserWins /\ WhCounts
=============================================================================
