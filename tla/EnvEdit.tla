------------------------------ MODULE EnvEdit ------------------------------
(***************************************************************************)
(* Editing an app's environment from the command line: `basepod env set`   *)
(* and `env unset` read the whole set, change it and write the whole set   *)
(* back (internal/cli/commands.go), against GET and PUT .../env            *)
(* (internal/api/env.go), which never show a secret and keep a stored one  *)
(* when the request has it empty.                                          *)
(*                                                                         *)
(* Abstracted: what a value is and how it is sealed; the redeploy header   *)
(* and the audit row, which tell whether the set changed.                  *)
(***************************************************************************)
EXTENDS Naturals

CONSTANTS Editors,   \* clients
          Keys,
          Edits      \* the commands: [sets, keys, value, secret]

ASSUME EditsAssumption ==
    \A e \in Edits : e.sets \in BOOLEAN /\ (e.sets => e.secret \in BOOLEAN)

VARIABLES
    env,     \* the env_vars rows of the app
    edit     \* each client's command and how far it is

editVars == <<env, edit>>

Empty == "empty"
Absent == [value |-> "none", secret |-> FALSE]
Entry(value, secret) == [value |-> value, secret |-> secret]

\* What GET shows of an entry.
Masked(e) == IF e.secret THEN Entry(Empty, TRUE) ELSE e
Shown == [k \in Keys |-> Masked(env[k])]
KeptEmpty(e) == e = Entry(Empty, TRUE)

\* initial: key -> entry or Absent.
EditInit(initial) ==
    /\ env = initial
    /\ edit = [c \in Editors |-> [pc |-> "idle"]]

\* GetEnv.
Get(c, command) ==
    /\ edit[c].pc = "idle"
    /\ edit' = [edit EXCEPT ![c] =
         [pc |-> "put", command |-> command, view |-> Shown]]
    /\ UNCHANGED env

\* mergeEnvSet: the named keys over what was shown, all marked as the command says.
SetBody(view, command) ==
    [k \in Keys |-> IF k \in command.keys THEN Entry(command.value, command.secret) ELSE view[k]]

\* newEnvUnsetCmd.
UnsetBody(view, command) == [k \in Keys |-> IF k \in command.keys THEN Absent ELSE view[k]]

Body(c) ==
    IF edit[c].command.sets THEN SetBody(edit[c].view, edit[c].command)
    ELSE UnsetBody(edit[c].view, edit[c].command)

\* handlePutEnv reads the stored set.
ReadStored(c) ==
    /\ edit[c].pc = "put"
    /\ edit' = [edit EXCEPT ![c] =
         [pc |-> "replace", command |-> @.command, view |-> @.view, body |-> Body(c), stored |-> env]]
    /\ UNCHANGED env

\* The row that an entry of the request becomes; the variant keeps nothing.
Resolved_Plain(asked, stored) == asked

Resolved(asked, stored) == IF KeptEmpty(asked) /\ stored.secret THEN stored ELSE asked

\* ReplaceEnvVars, one transaction.
Replace(c) ==
    /\ edit[c].pc = "replace"
    /\ env' = [k \in Keys |-> Resolved(edit[c].body[k], edit[c].stored[k])]
    /\ edit' = [edit EXCEPT ![c].pc = "done"]

EditNext(who) ==
    \E c \in who : (\E command \in Edits : Get(c, command)) \/ ReadStored(c) \/ Replace(c)

----------------------------------------------------------------------------
\* A command changes the keys it names and no other: the rest, the secrets it
\* was never shown included, stay as they are though other commands ran since
\* it read the set, where what it was shown still holds. That is as long as no
\* other request replaces the set within its own (handlePutEnv, newEnvSetCmd,
\* newEnvUnsetCmd).
EnvKept ==
    [][\A c \in Editors : edit[c].pc = "replace" /\ edit'[c].pc = "done" /\ edit[c].stored = env =>
            \A k \in Keys :
                IF k \notin edit[c].command.keys
                THEN edit[c].view[k] = Masked(env[k]) => env'[k] = env[k]
                ELSE env'[k] = IF ~edit[c].command.sets THEN Absent
                               ELSE IF edit[c].command.secret /\ edit[c].command.value = Empty /\ env[k].secret THEN env[k]
                               ELSE Entry(edit[c].command.value, edit[c].command.secret)]_editVars
=============================================================================
