---------------------------- MODULE RemoteConfig ----------------------------
(* openclaw.json on one host, and the commands that rewrite it: `config set`  *)
(* and `config unset` (CLI and MCP), and the overlay writers, `apply`, `up`,  *)
(* `setup` and `secret rotate`.  Each reads the file, merges its edit,        *)
(* validates the result, sends one shell command that writes it, and may then *)
(* restart the gateway and clear the host agent's request for the change.     *)
(*                                                                            *)
(* The shell command is a process of the host.  It runs on when the client    *)
(* that sent it is stopped, or loses its connection (which reads as exit 0).  *)
(* Every run writes through the same temporary path, so files are inodes      *)
(* here: `tmp` and `config` are the paths, `fd` is what a shell writes to.    *)
EXTENDS Integers, FiniteSets

CONSTANTS
  Writers,      \* runs of those commands, each with an edit of its own
  Invalid,      \* the runs whose edit the schema refuses
  Attempts,     \* polls of waitForGateway
  MaxFaults,    \* bound: commands that fail, connections lost, runs stopped
  First,        \* the inode of the file that is there at first
  None

ASSUME ConfigAssumption ==
  /\ Invalid \subseteq Writers
  /\ Attempts \in Nat \ {0} /\ MaxFaults \in Nat
  /\ First \notin Writers /\ None \notin Writers \union {First}

VARIABLES
  files,        \* what each inode holds
  config, tmp,  \* the inodes the two paths lead to (tmp: None, no such path)
  gw,           \* the gateway and the config it loaded when it last started
  cmd,          \* what each run was asked for
  at,           \* the step it is at, or how it ended
  read,         \* the config it means to write
  polls,        \* its polls of the gateway
  connected,    \* its SSH session is open
  shell,        \* its command on the host: the step, or the exit status
  fd,           \* the inode that command writes to
  cleared,      \* runs that cleared the request for their change
  crossed,      \* history: a run read the file inside the window of another
  overlapped,   \* history: two write commands were under way at once
  faults        \* faults so far

file    == <<files, config, tmp, fd>>
client  == <<cmd, read, polls, cleared>>
history == <<crossed, overlapped>>
vars    == <<file, gw, client, at, connected, shell, history, faults>>

(* A file that parses is a config, the set of edits it carries.               *)
Configs   == SUBSET Writers
Holds(c)  == [json |-> "whole", edits |-> c]
Empty     == [json |-> "empty", edits |-> {}]
Torn      == [json |-> "torn", edits |-> {}]
Content   == [json : {"whole", "empty", "torn"}, edits : Configs]
Whole(f)  == f.json = "whole"
Valid(f)  == Whole(f) /\ f.edits \intersect Invalid = {}

(* An inode is named after the run that created it.                           *)
Inodes == Writers \union {First}

(* Overlays always restart, and answer no request.                            *)
Commands == {c \in [restart : BOOLEAN, clears : BOOLEAN] : c.clears \/ c.restart}

Ends  == {"ok", "failed", "refused", "stopped"}
Steps == {"idle", "validate", "writing", "inspect", "running", "waiting", "clear"} \union Ends

WriteSteps == {"fill", "move", "chown"}
ShellSteps == {"none", "open", "run", "exit 0", "exit 1"} \union WriteSteps

TypeOK ==
  /\ files \in [Inodes -> Content]
  /\ config \in Inodes
  /\ tmp \in Inodes \union {None}
  /\ gw \in [st : {"absent", "starting", "started"}, loaded : Content]
  /\ cmd \in [Writers -> Commands \union {None}]
  /\ at \in [Writers -> Steps]
  /\ \A w \in Writers : at[w] # "idle" => cmd[w] \in Commands
  /\ read \in [Writers -> Configs]
  /\ polls \in [Writers -> 0..Attempts]
  /\ connected \in [Writers -> BOOLEAN]
  /\ shell \in [Writers -> ShellSteps]
  /\ fd \in [Writers -> Inodes \union {None}]
  /\ \A w \in Writers : shell[w] \in WriteSteps => fd[w] \in Inodes
  /\ cleared \subseteq Writers
  /\ crossed \in BOOLEAN /\ overlapped \in BOOLEAN
  /\ faults \in 0..MaxFaults

Init ==
  /\ files = [i \in Inodes |-> IF i = First THEN Holds({}) ELSE Empty]
  /\ config = First /\ tmp = None
  /\ gw = [st |-> "started", loaded |-> Holds({})]
  /\ cmd = [w \in Writers |-> None]
  /\ at = [w \in Writers |-> "idle"]
  /\ read = [w \in Writers |-> {}]
  /\ polls = [w \in Writers |-> 0]
  /\ connected = [w \in Writers |-> TRUE]
  /\ shell = [w \in Writers |-> "none"]
  /\ fd = [w \in Writers |-> None]
  /\ cleared = {}
  /\ crossed = FALSE /\ overlapped = FALSE
  /\ faults = 0

Goto(w, step) == at' = [at EXCEPT ![w] = step]
Sh(w, step)   == shell' = [shell EXCEPT ![w] = step]
Fault         == faults < MaxFaults /\ faults' = faults + 1

(* From the read to the end of the write command.                             *)
InWindow(w) == at[w] \in {"validate", "writing"} \/ shell[w] \in WriteSteps \union {"open"}

----------------------------------------------------------------------------
(* The client.                                                                *)

(* A writer that does not look at what is there, for comparison.              *)
ReadNothing(w) == [read EXCEPT ![w] = {w}]

(* readRemoteConfig and deepMerge, or setPath and deletePath.                 *)
Merged(w) == [read EXCEPT ![w] = files[config].edits \union {w}]

(* The file is read and parsed.  What is not JSON ends the command.           *)
Read(w) ==
  /\ at[w] = "idle"
  /\ \E c \in Commands : cmd' = [cmd EXCEPT ![w] = c]
  /\ crossed' = (crossed \/ \E v \in Writers \ {w} : InWindow(v))
  /\ \/ Whole(files[config]) /\ read' = Merged(w) /\ Goto(w, "validate") /\ UNCHANGED faults
     \/ ~Whole(files[config]) /\ Goto(w, "failed") /\ UNCHANGED <<read, faults>>
     \/ Fault /\ Goto(w, "failed") /\ UNCHANGED read
  /\ UNCHANGED <<file, gw, polls, cleared, connected, shell, overlapped>>

(* atomicWriteConfig: a config that passes is sent, as one shell command.     *)
Send(w) ==
  /\ at[w] = "validate" /\ connected[w] /\ Valid(Holds(read[w]))
  /\ Goto(w, "writing") /\ Sh(w, "open")
  /\ UNCHANGED <<file, gw, client, connected, history, faults>>

(* One that does not is kept beside the file, which stays as it is.           *)
Refuse(w) ==
  /\ at[w] = "validate" /\ connected[w] /\ ~Valid(Holds(read[w]))
  /\ Goto(w, "refused")
  /\ UNCHANGED <<file, gw, client, connected, shell, history, faults>>

(* What exec says of the command: its exit status, or 0 when the channel      *)
(* closed without one.                                                        *)
ReadsAsDone(w)   == shell[w] = "exit 0" \/ ~connected[w]
ReadsAsFailed(w) == shell[w] = "exit 1"

Written(w) ==
  /\ at[w] = "writing"
  /\ \/ ReadsAsDone(w) /\ Goto(w, IF cmd[w].restart THEN "inspect" ELSE "clear")
     \/ ReadsAsFailed(w) /\ Goto(w, "failed")
  /\ UNCHANGED <<file, gw, client, connected, shell, history, faults>>

(* restartGateway: the image and the publish scope of the container that is   *)
(* there (perhaps one that is down), then the run command.                    *)
Inspect(w) ==
  /\ at[w] = "inspect" /\ connected[w]
  /\ \/ Goto(w, "running") /\ Sh(w, "run")
     \/ gw.st = "absent" /\ Goto(w, "failed") /\ UNCHANGED shell
  /\ UNCHANGED <<file, gw, client, connected, history, faults>>

Ran(w) ==
  /\ at[w] = "running"
  /\ \/ ReadsAsDone(w) /\ Goto(w, "waiting")
     \/ ReadsAsFailed(w) /\ Goto(w, "failed")
  /\ UNCHANGED <<file, gw, client, connected, shell, history, faults>>

(* Polls whose limit is not looked at, for comparison.                        *)
(* waitForGateway: a bounded number of looks at /startupz.                    *)
Poll(w) ==
  /\ at[w] = "waiting" /\ connected[w]
  /\ \/ gw.st = "started" /\ Goto(w, "clear") /\ UNCHANGED polls
     \/ /\ gw.st # "started" /\ polls[w] < Attempts
        /\ polls' = [polls EXCEPT ![w] = @ + 1]
        /\ Goto(w, IF polls[w] + 1 < Attempts THEN "waiting" ELSE "failed")
  /\ UNCHANGED <<file, gw, cmd, read, cleared, connected, shell, history, faults>>

(* On a closed session the next exec throws.                                  *)
Throws(w) ==
  /\ at[w] \in {"validate", "inspect", "waiting"} /\ ~connected[w]
  /\ Goto(w, "failed")
  /\ UNCHANGED <<file, gw, client, connected, shell, history, faults>>

(* The request is cleared without asking whether the exec went through, for   *)
(* comparison.                                                                *)
(* clearHostHandoffs: best effort, after the command has succeeded.           *)
Clear(w) ==
  /\ at[w] = "clear" /\ Goto(w, "ok")
  /\ \/ /\ cmd[w].clears /\ connected[w]
        /\ cleared' = cleared \union {w} /\ UNCHANGED faults
     \/ /\ ~(cmd[w].clears /\ connected[w])
        /\ UNCHANGED <<cleared, faults>>
     \/ Fault /\ UNCHANGED cleared
  /\ UNCHANGED <<file, gw, cmd, read, polls, connected, shell, history>>

(* The connection is lost.                                                    *)
Lose(w) ==
  /\ at[w] \notin Ends \union {"idle"} /\ connected[w] /\ Fault
  /\ connected' = [connected EXCEPT ![w] = FALSE]
  /\ UNCHANGED <<file, gw, client, at, shell, history>>

(* ^C, or the process is killed.                                              *)
Stop(w) ==
  /\ at[w] \notin Ends \union {"idle"} /\ Fault
  /\ Goto(w, "stopped")
  /\ UNCHANGED <<file, gw, client, connected, shell, history>>

----------------------------------------------------------------------------
(* The write command on the host:                                             *)
(*   ... | base64 -d > OPENCLAW_TMP && mv OPENCLAW_TMP openclaw.json && chown *)

(* The redirection: a new file, or the one that is there made empty.          *)
Open(w) ==
  /\ shell[w] = "open" /\ Sh(w, "fill")
  /\ LET i == IF tmp = None THEN w ELSE tmp
     IN  /\ tmp' = i /\ fd' = [fd EXCEPT ![w] = i]
         /\ files' = [files EXCEPT ![i] = Empty]
  /\ overlapped' = (overlapped \/ \E v \in Writers \ {w} : shell[v] \in WriteSteps)
  /\ UNCHANGED <<config, gw, client, at, connected, crossed, faults>>

(* Written from the start of the file, over what another shell may have put   *)
(* there: a shorter config leaves the tail of a longer one.                   *)
Over(old, new) == IF old \in {Empty, new} THEN {new} ELSE {new, Torn}

(* The status of the pipe not looked at, for comparison.                      *)
FillUnchecked(w) ==
  /\ shell[w] = "fill"
  /\ Sh(w, "move")
  /\ \/ /\ \E c \in Over(files[fd[w]], Holds(read[w])) : files' = [files EXCEPT ![fd[w]] = c]
        /\ UNCHANGED faults
     \/ Fault /\ files' = [files EXCEPT ![fd[w]] = Torn]
  /\ UNCHANGED <<config, tmp, fd, gw, client, at, connected, history>>

Fill(w) ==
  /\ shell[w] = "fill"
  /\ \/ /\ \E c \in Over(files[fd[w]], Holds(read[w])) : files' = [files EXCEPT ![fd[w]] = c]
        /\ Sh(w, "move") /\ UNCHANGED faults
     \/ Fault /\ files' = [files EXCEPT ![fd[w]] = Torn] /\ Sh(w, "exit 1")
  /\ UNCHANGED <<config, tmp, fd, gw, client, at, connected, history>>

(* mv moves whatever the temporary path leads to by then.                     *)
Move(w) ==
  /\ shell[w] = "move"
  /\ \/ tmp # None /\ config' = tmp /\ tmp' = None /\ Sh(w, "chown") /\ UNCHANGED faults
     \/ tmp = None /\ Sh(w, "exit 1") /\ UNCHANGED <<config, tmp, faults>>
     \/ Fault /\ Sh(w, "exit 1") /\ UNCHANGED <<config, tmp>>
  /\ UNCHANGED <<files, fd, gw, client, at, connected, history>>

(* A chown that fails is reported as a failed write, of a config that is      *)
(* there by then.                                                             *)
Chown(w) ==
  /\ shell[w] = "chown"
  /\ \/ Sh(w, "exit 0") /\ UNCHANGED faults
     \/ Fault /\ Sh(w, "exit 1")
  /\ UNCHANGED <<file, gw, client, at, connected, history>>

----------------------------------------------------------------------------
(* The gateway on the host.                                                   *)

(* A restart that leaves the running container, for comparison.               *)
RunKeeps(w) ==
  /\ shell[w] = "run"
  /\ \/ Sh(w, "exit 0") /\ UNCHANGED <<gw, faults>>
     \/ Fault /\ Sh(w, "exit 1") /\ gw' \in {gw, [gw EXCEPT !.st = "absent"]}
  /\ UNCHANGED <<file, client, at, connected, history>>

(* gatewayRunCommand: the container is replaced, and the new one loads the    *)
(* file as it is then.  One that fails leaves the old container, or none that *)
(* runs.                                                                      *)
Run(w) ==
  /\ shell[w] = "run"
  /\ \/ Sh(w, "exit 0") /\ gw' = [st |-> "starting", loaded |-> files[config]] /\ UNCHANGED faults
     \/ Fault /\ Sh(w, "exit 1") /\ gw' \in {gw, [gw EXCEPT !.st = "absent"]}
  /\ UNCHANGED <<file, client, at, connected, history>>

(* It finishes starting, some time, on a config it can use.                   *)
GatewayStarts ==
  /\ gw.st = "starting" /\ Valid(gw.loaded)
  /\ gw' = [gw EXCEPT !.st = "started"]
  /\ UNCHANGED <<file, client, at, connected, shell, history, faults>>

(* It exits, on a config it cannot use or by itself, and the supervisor       *)
(* starts it again, on the file as it is by then.                             *)
GatewayRestarts ==
  /\ gw.st # "absent"
  /\ gw' = [st |-> "starting", loaded |-> files[config]]
  /\ UNCHANGED <<file, client, at, connected, shell, history, faults>>

----------------------------------------------------------------------------
ClientStep(w) ==
  \/ Send(w) \/ Refuse(w) \/ Written(w) \/ Inspect(w) \/ Ran(w)
  \/ Poll(w) \/ Throws(w) \/ Clear(w)

ShellStep(w) == Open(w) \/ Fill(w) \/ Move(w) \/ Chown(w) \/ Run(w)

Next ==
  \/ \E w \in Writers : \/ Read(w) \/ ClientStep(w) \/ ShellStep(w)
                        \/ Lose(w) \/ Stop(w)
  \/ GatewayStarts \/ GatewayRestarts

Spec == Init /\ [][Next]_vars

----------------------------------------------------------------------------
(* Unless two write commands ran at once, openclaw.json is at every moment a  *)
(* whole config that the schema accepts, and so is what the gateway loaded:   *)
(* with runs stopped, connections lost and commands failing anywhere, and     *)
(* with a gateway that restarts in the middle of a write.                     *)
WholeConfig == ~overlapped => Valid(files[config]) /\ Valid(gw.loaded)

(* A run whose success is real (it saw the end of its write: with a restart   *)
(* it needed the session afterwards).                                         *)
SaysWritten(w) == at[w] = "ok" /\ (cmd[w].restart \/ connected[w])

(* Unless a run read the file between the read and the write of another, what *)
(* a run said it wrote is in the file from then on, whoever writes next.      *)
DoneIsKept == ~crossed => \A w \in Writers : SaysWritten(w) => w \in files[config].edits

(* Under the same condition, a command that restarts the gateway and succeeds *)
(* leaves it running its change: every later container has loaded it too.     *)
AppliedWhenSaid ==
  ~crossed => \A w \in Writers :
                 at[w] = "ok" /\ cmd[w].restart => w \in gw.loaded.edits

(* Under the same condition, a request of the host agent is cleared only when *)
(* its change is in the file, and loaded if it asked for a restart.           *)
ClearedWasDone ==
  ~crossed => \A w \in cleared :
                 w \in files[config].edits /\ (cmd[w].restart => w \in gw.loaded.edits)
=============================================================================
