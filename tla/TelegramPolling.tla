--------------------------- MODULE TelegramPolling --------------------------
(***************************************************************************)
(* telegram_poll_loop: getUpdates, then handle_update for each update of   *)
(* the answer, one after the other, for ever.  Telegram keeps an update    *)
(* until a later getUpdates asks for a higher offset, and hands it out     *)
(* again until then.  The loop's offset lives in a local variable: when    *)
(* the API process ends, it is forgotten.                                  *)
(*                                                                         *)
(* handle_update lets no exception out but a cancellation: a handler that  *)
(* fails is logged, and its update is finished like any other.             *)
(***************************************************************************)
EXTENDS Naturals

CONSTANTS
  MaxUpdates,   \* bound of the model: updates the user sends
  Limit,        \* updates in one answer, at most
  MaxErrors,    \* bound of the model: getUpdates calls that raise
  MaxRestarts   \* bound of the model: times the process starts again

ASSUME PollingAssumption ==
  /\ MaxUpdates \in Nat
  /\ Limit \in Nat \ {0}
  /\ MaxErrors \in Nat
  /\ MaxRestarts \in Nat

Update == 1 .. MaxUpdates     \* update_ids, in the order the user made them

VARIABLES
  sent,        \* updates made so far: 1 .. sent
  confirmed,   \* updates that Telegram will not hand out again: 1 .. confirmed
  pc,          \* where the loop is
  offset,      \* its local variable, 0 for None
  next,        \* update that is, or comes next to be, handled ...
  last,        \* ... up to this one, the last of the answer
  attempts,    \* times handle_update was entered, per update
  finished,    \* updates for which it came to its end
  errors,
  restarts

pollVars == <<sent, confirmed, pc, offset, next, last, attempts, finished,
              errors, restarts>>

PollTypeOK ==
  /\ sent \in 0 .. MaxUpdates
  /\ confirmed \in 0 .. sent
  /\ pc \in {"poll", "next", "handling", "down"}
  /\ offset \in Nat
  /\ next \in Nat
  /\ last \in 0 .. sent
  /\ attempts \in [Update -> Nat]
  /\ finished \subseteq 1 .. sent
  /\ errors \in 0 .. MaxErrors
  /\ restarts \in 0 .. MaxRestarts

PollInit ==
  /\ sent = 0
  /\ confirmed = 0
  /\ pc = "poll"
  /\ offset = 0
  /\ next = 1
  /\ last = 0
  /\ attempts = [u \in Update |-> 0]
  /\ finished = {}
  /\ errors = 0
  /\ restarts = 0

-----------------------------------------------------------------------------

Send ==
  /\ sent < MaxUpdates
  /\ sent' = sent + 1
  /\ UNCHANGED <<confirmed, pc, offset, next, last, attempts, finished,
                 errors, restarts>>

\* Telegram's side of a getUpdates call: what is below the offset is confirmed.
ConfirmedBy(off) == IF off > confirmed + 1 THEN off - 1 ELSE confirmed

\* The last update in the answer: Limit of them after the confirmed ones.
LastOf(first) ==
  IF sent < first + Limit - 1 THEN sent ELSE first + Limit - 1

-----------------------------------------------------------------------------
(* Operators below, each with a bug in it (see ContentDraft).               *)

\* The offset is that of the update, not of the one after it.
OffsetAfter_Same(u) == u

\* The offset is one too high.
OffsetAfter_Skips(u) == u + 2

\* The handler is started as a task of its own, and the loop goes on.
HandleNext_Spawned ==
  /\ pc = "next"
  /\ offset' = next + 1
  /\ attempts' = [attempts EXCEPT ![next] = @ + 1]
  /\ IF next < last
     THEN next' = next + 1 /\ pc' = "next"
     ELSE pc' = "poll" /\ UNCHANGED next
  /\ UNCHANGED <<sent, confirmed, last, finished, errors, restarts>>

\* The updates of an answer are handled from the last one.
HandleNext_Backwards ==
  /\ pc = "next"
  /\ offset' = last + 1
  /\ attempts' = [attempts EXCEPT ![last] = @ + 1]
  /\ pc' = "handling"
  /\ UNCHANGED <<sent, confirmed, next, last, finished, errors, restarts>>

-----------------------------------------------------------------------------

\* client.get_updates(offset=offset): an empty answer is asked for again.
GetUpdates ==
  /\ pc = "poll"
  /\ confirmed' = ConfirmedBy(offset)
  /\ IF confirmed' < sent
     THEN /\ next' = confirmed' + 1
          /\ last' = LastOf(confirmed' + 1)
          /\ pc' = "next"
     ELSE UNCHANGED <<next, last, pc>>
  /\ UNCHANGED <<sent, offset, attempts, finished, errors, restarts>>

\* It raises, before or after Telegram confirmed; the loop logs and goes on.
GetUpdatesFails ==
  /\ pc = "poll"
  /\ errors < MaxErrors
  /\ errors' = errors + 1
  /\ confirmed' \in {confirmed, ConfirmedBy(offset)}
  /\ UNCHANGED <<sent, pc, offset, next, last, attempts, finished, restarts>>

\* offset = update_id + 1
OffsetAfter(u) == u + 1

\* The offset is moved before the handler is awaited.
HandleNext ==
  /\ pc = "next"
  /\ offset' = OffsetAfter(next)
  /\ attempts' = [attempts EXCEPT ![next] = @ + 1]
  /\ pc' = "handling"
  /\ UNCHANGED <<sent, confirmed, next, last, finished, errors, restarts>>

\* handle_update returns, and with it, at the end of the answer, the for loop.
HandlerEnds ==
  /\ pc = "handling"
  /\ finished' = finished \cup {next}
  /\ IF next < last
     THEN next' = next + 1 /\ pc' = "next"
     ELSE pc' = "poll" /\ UNCHANGED next
  /\ UNCHANGED <<sent, confirmed, offset, last, attempts, errors, restarts>>

\* The process stops, or shuts down and cancels the loop: CancelledError goes
\* through every except on its way.
ProcessEnds ==
  /\ pc # "down"
  /\ restarts < MaxRestarts
  /\ pc' = "down"
  /\ UNCHANGED <<sent, confirmed, offset, next, last, attempts, finished,
                 errors, restarts>>

ProcessStarts ==
  /\ pc = "down"
  /\ restarts' = restarts + 1
  /\ pc' = "poll"
  /\ offset' = 0
  /\ UNCHANGED <<sent, confirmed, next, last, attempts, finished, errors>>

LoopStep == GetUpdates \/ HandleNext \/ HandlerEnds

PollNext ==
  Send \/ LoopStep \/ GetUpdatesFails \/ ProcessEnds \/ ProcessStarts

PollSpec == PollInit /\ [][PollNext]_pollVars

-----------------------------------------------------------------------------

\* Telegram forgets an update only after the loop is done with it: no update
\* is lost to a crash, although the offset moves before the handler runs.
ConfirmedIsFinished == 1 .. confirmed \subseteq finished

\* Updates are taken up in the order they were made: a click is never handled
\* before the message that came before it.
TakenInOrder ==
  \A u \in Update : attempts[u] > 0 => \A v \in 1 .. u : attempts[v] > 0

\* An update is handled a second time only by a later life of the process.
OncePerLife == \A u \in Update : attempts[u] <= 1 + restarts

\* "para nao processar duas vezes": every update is handled at most once.
HandledOnce == \A u \in Update : attempts[u] <= 1

\* The event loop goes on with the polling task, a dead process is started
\* again (restart: unless-stopped), and getUpdates fails finitely often.
PollFairSpec == PollSpec /\ WF_pollVars(LoopStep) /\ WF_pollVars(ProcessStarts)

\* Every update that was sent is in the end handled to its end.
SentIsFinished == \A u \in Update : sent >= u ~> u \in finished

-----------------------------------------------------------------------------
(* Why the safety properties hold: all that is behind the loop is finished, *)
(* and what lies ahead of its offset was not handled in this life.          *)

Behind == 1 .. (next - 1) \subseteq finished

PollingInv ==
  /\ PollTypeOK
  /\ ConfirmedIsFinished
  /\ TakenInOrder
  /\ \A u \in finished : attempts[u] > 0
  /\ pc = "poll" /\ offset > 0 => 1 .. (offset - 1) \subseteq finished
  /\ pc \in {"next", "handling"} => Behind /\ next >= 1 /\ next <= last
  /\ pc = "next" => offset <= next
  /\ pc = "down" => restarts < MaxRestarts
  /\ pc = "handling" => offset = next + 1 /\ attempts[next] > 0
  /\ \A u \in Update : attempts[u] <= restarts + (IF u < offset THEN 1 ELSE 0)

=============================================================================
