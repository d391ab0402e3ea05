-------------------------- MODULE MutationDialog ---------------------------
(***************************************************************************)
(* MutationDialog.tsx, of which MutationProvider keeps a single one: an    *)
(* action is confirmed, sent, and its result shown.  executeAction turns   *)
(* every failure into a result; the executor of a streamed run does not.   *)
(***************************************************************************)
EXTENDS ActionCatalog

VARIABLE mutation     \* the dialog

Phases == {"confirm", "running", "success", "error"}

Closed == [phase |-> "closed"]

\* "sent": a request is under way; "valid": the parameters are.
Dialogs(actions, names) ==
  [phase : Phases, action : actions, of : names, confirmed : BOOLEAN,
   valid : BOOLEAN, streamed : BOOLEAN, sent : BOOLEAN]

MutationInit == mutation = Closed

Mutating == mutation.phase # "closed"

\* The effect that runs when the dialog opens resets all of it.
OpenMutation(a, name) ==
  /\ ~Mutating
  /\ mutation' = [phase |-> "confirm", action |-> a, of |-> name,
                  confirmed |-> FALSE, valid |-> ~a.blank,
                  streamed |-> FALSE, sent |-> FALSE]

\* The inputs are disabled while the connection is unhealthy.
FillIn(on) ==
  /\ mutation.phase = "confirm" /\ on
  /\ \/ mutation' = [mutation EXCEPT !.confirmed = ~@]
     \/ mutation.action.checked /\ mutation' = [mutation EXCEPT !.valid = ~@]
     \/ mutation.action.streams /\ mutation' = [mutation EXCEPT !.streamed = ~@]

Execute(on) ==
  /\ mutation.phase = "confirm"
  /\ on /\ mutation.valid /\ mutation.confirmed
  /\ mutation' = [mutation EXCEPT !.phase = "running", !.sent = TRUE]

\* The runs of jobs close the dialog at once.
Succeed ==
  /\ Mutating /\ mutation.sent
  /\ mutation' = IF mutation.action.streams
                 THEN Closed
                 ELSE [mutation EXCEPT !.phase = "success", !.sent = FALSE]

\* Mutant: no failure becomes a result.
Fail_Raises ==
  /\ Mutating /\ mutation.sent
  /\ mutation' = [mutation EXCEPT !.sent = FALSE]

\* A rejected promise ends handleExecute before it sets the phase.
Fail ==
  /\ Mutating /\ mutation.sent
  /\ mutation' = [mutation EXCEPT !.sent = FALSE,
                                  !.phase = IF mutation.streamed
                                            THEN "running" ELSE "error"]

\* What was typed and checked is kept.
Retry ==
  /\ mutation.phase = "error"
  /\ mutation' = [mutation EXCEPT !.phase = "confirm"]

\* Neither the buttons nor a click beside the dialog close it while running.
CloseMutation ==
  /\ mutation.phase \in {"confirm", "success", "error"}
  /\ mutation' = Closed
=============================================================================
