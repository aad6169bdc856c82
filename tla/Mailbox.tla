------------------------------- MODULE Mailbox -------------------------------
(***************************************************************************)
(* The way of a web request to the machine: the handlers, in the web       *)
(* thread, leave a command and its argument in two variables; the main     *)
(* thread polls them, executes the command, answers the page and empties   *)
(* them. There is no lock, so every access to one of the two is a step.    *)
(*                                                                         *)
(* What an execution does to the machine is the subject of Machine.        *)
(*                                                                         *)
(* Names that Settings has too begin with the module's, as WebProofs       *)
(* extends both.                                                           *)
(***************************************************************************)
EXTENDS Naturals

CONSTANTS
  Args,     \* arguments of requests; none is used again while it is about
  NoArg,  \* the empty argument
  Patient   \* the user waits for the effect of a request before the next

ASSUME MailboxAssumption == NoArg \notin Args /\ Patient \in BOOLEAN

VARIABLES
  webCommand,       \* the mailbox: a command
  webCommandParam,  \*   and its argument
  wpc, req, arg,    \* the web thread: where it is, the request it handles
  mpc,              \* the main thread: where it is
  job,              \*   the command it executes
  file,             \*   the file it loads
  said,             \* history: arguments of commands the page called done
  typed             \* history: arguments of commands that were typed in

mailVars == <<webCommand, webCommandParam>>
handlerVars == <<wpc, req, arg, said>>
mainVars == <<mpc, job, file, typed>>
mailboxVars == <<mailVars, handlerVars, mainVars>>

Commands == {"n80", "cmt", "send"}

Empty == webCommand = "none" /\ mpc = "poll"
-----------------------------------------------------------------------------
(* The handlers, called by handleClient() *)

\* A command typed in once is not sent again, for the history's sake.
Unused == Args \ (said \cup typed \cup {file, arg, webCommandParam})

\* Mutant: all handlers set the command first.
CommandFirst(cmd) ==
  IF cmd = "send" THEN [start |-> "command", command |-> "param", param |-> "say"]
                  ELSE [start |-> "command", command |-> "param", param |-> "idle"]

\* What follows what: selectN80() and selectCMT() set the command first,
\* sendCommand() sets it last and then answers.
Order(cmd) ==
  IF cmd = "send" THEN [start |-> "param", param |-> "command", command |-> "say"]
                  ELSE [start |-> "command", command |-> "param", param |-> "idle"]

Request(cmd, a) ==
  /\ wpc = "idle"
  /\ Patient => Empty
  /\ req' = cmd /\ arg' = a
  /\ wpc' = Order(cmd).start
  /\ UNCHANGED <<mailVars, mainVars, said>>

PostCommand ==
  /\ wpc = "command"
  /\ webCommand' = req
  /\ wpc' = Order(req).command
  /\ UNCHANGED <<webCommandParam, req, arg, said, mainVars>>

PostParam ==
  /\ wpc = "param"
  /\ webCommandParam' = arg
  /\ wpc' = Order(req).param
  /\ UNCHANGED <<webCommand, req, arg, said, mainVars>>

\* "sendCommand[...] Done"
SayDone ==
  /\ wpc = "say"
  /\ said' = said \cup {arg}
  /\ wpc' = "idle"
  /\ UNCHANGED <<mailVars, req, arg, mainVars>>
-----------------------------------------------------------------------------
(* processWebCommand() *)

\* Mutant: the argument is dropped before the command is looked at.
TakeAndDrop == /\ mpc = "poll" /\ webCommand # "none"
               /\ job' = webCommand
               /\ webCommandParam' = NoArg
               /\ mpc' = "execute"
               /\ UNCHANGED <<webCommand, file, typed, handlerVars>>

Take == /\ mpc = "poll" /\ webCommand # "none"
        /\ job' = webCommand
        /\ mpc' = "execute"
        /\ UNCHANGED <<file, typed, mailVars, handlerVars>>

\* The argument is typed in, character by character, and RETURN after it.
Type == /\ mpc = "execute" /\ job = "send"
        /\ typed' = typed \cup ({webCommandParam} \cap Args)
        /\ mpc' = "clear"
        /\ UNCHANGED <<job, file, mailVars, handlerVars>>

\* selectN80File() or selectCMTFile() gets the argument and takes its time.
LoadFile == /\ mpc = "execute" /\ job \in {"n80", "cmt"}
            /\ file' = webCommandParam
            /\ mpc' = "reply"
            /\ UNCHANGED <<job, typed, mailVars, handlerVars>>

\* "Set N80[...] Done": the page names what the mailbox holds by now.
Reply == /\ mpc = "reply"
         /\ mpc' = "clear"
         /\ UNCHANGED <<job, file, typed, mailVars, handlerVars>>

\* The mailbox is emptied, whatever has come into it meanwhile.
ClearCommand == /\ mpc = "clear"
                /\ webCommand' = "none"
                /\ mpc' = "clearParam"
                /\ UNCHANGED <<webCommandParam, job, file, typed, handlerVars>>

ClearParam == /\ mpc = "clearParam"
              /\ webCommandParam' = NoArg
              /\ mpc' = "poll"
              /\ UNCHANGED <<webCommand, job, file, typed, handlerVars>>
-----------------------------------------------------------------------------
MailboxInit ==
  /\ webCommand = "none" /\ webCommandParam = NoArg
  /\ wpc = "idle" /\ req = "send" /\ arg = NoArg
  /\ mpc = "poll" /\ job = "send" /\ file = NoArg
  /\ said = {} /\ typed = {}

Requests == \E cmd \in Commands, a \in Unused : Request(cmd, a)

Web == PostCommand \/ PostParam \/ SayDone

Main == Take \/ Type \/ LoadFile \/ Reply \/ ClearCommand \/ ClearParam

MailboxNext == Requests \/ Web \/ Main

MailboxSpec == MailboxInit /\ [][MailboxNext]_mailboxVars

\* Both threads are scheduled (the menu, in which the main thread waits for a
\* button, is left to Machine); nobody need send a request.
MailboxFairSpec == MailboxSpec /\ WF_mailboxVars(Web) /\ WF_mailboxVars(Main)
-----------------------------------------------------------------------------
MailboxTypeOK ==
  /\ webCommand \in Commands \cup {"none"}
  /\ webCommandParam \in Args \cup {NoArg}
  /\ wpc \in {"idle", "command", "param", "say"}
  /\ req \in Commands /\ arg \in Args \cup {NoArg}
  /\ mpc \in {"poll", "execute", "reply", "clear", "clearParam"}
  /\ job \in Commands /\ file \in Args \cup {NoArg}
  /\ said \subseteq Args /\ typed \subseteq Args

(***************************************************************************)
(* A command is typed in as it was sent: sendCommand() leaves the argument *)
(* before the command, so that the main thread never takes the command     *)
(* with another argument (when the user waits for the effect of one        *)
(* request before the next).                                               *)
(***************************************************************************)
SentWhole == mpc = "execute" /\ job = "send" => req = "send" /\ webCommandParam = arg

(***************************************************************************)
(* What the page calls done gets done: the command is typed in.            *)
(***************************************************************************)
CommandsDone == \A a \in Args : a \in said ~> a \in typed
=============================================================================
