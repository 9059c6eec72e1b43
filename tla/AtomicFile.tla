----------------------------- MODULE AtomicFile -----------------------------
(***************************************************************************)
(* What a file that is loaded, changed and saved as a whole promises to    *)
(* the commands that use it, with no file system at all: each command is   *)
(* an edit that takes effect in one step, when the command ends, and its   *)
(* user is told what the content at that step makes true.                  *)
(*                                                                         *)
(* The promise is for commands that run one at a time and to their end.    *)
(* Nothing locks the files of this system, so once that is over the        *)
(* promise is as well.  Vault and ConfigFile implement it.                 *)
(***************************************************************************)
CONSTANTS
    Clients,
    Edits,          \* the commands
    Idle,           \* no command
    NoReply,        \* nothing was said yet
    Apply(_, _),    \* Apply(edit, content): the content the edit leaves
    Replies(_, _)   \* Replies(edit, content): what the user may be told

VARIABLES
    content,
    pending,        \* the command each client is running, or Idle
    reply,          \* what each client was told last
    calm            \* TRUE while commands run one at a time, to their end

vars == <<content, pending, reply, calm>>

Init ==
    /\ pending = [c \in Clients |-> Idle]
    /\ reply = [c \in Clients |-> NoReply]
    /\ calm = TRUE

Begin(c) ==
    /\ \A d \in Clients : pending[d] = Idle
    /\ \E edit \in Edits : pending' = [pending EXCEPT ![c] = edit]
    /\ reply' = [reply EXCEPT ![c] = NoReply]
    /\ UNCHANGED <<content, calm>>

Commit(c) ==
    /\ pending[c] # Idle
    /\ content' = Apply(pending[c], content)
    /\ \E answer \in Replies(pending[c], content) : reply' = [reply EXCEPT ![c] = answer]
    /\ pending' = [pending EXCEPT ![c] = Idle]
    /\ UNCHANGED calm

Disturb == calm' = FALSE

Next == Disturb \/ \E c \in Clients : Begin(c) \/ Commit(c)

Spec == Init /\ [][Next]_vars

=============================================================================
