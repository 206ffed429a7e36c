------------------------- MODULE RemoteConfigProofs -------------------------
(* What RemoteConfig promises for any number of runs, faults and polls.       *)
EXTENDS RemoteConfig, TLAPS

(* A run's command has not been sent before it is validated, and while it     *)
(* restarts the gateway its command is that restart.                          *)
ShellFits ==
  \A w \in Writers :
    /\ at[w] \in {"idle", "validate"} => shell[w] = "none"
    /\ at[w] = "running" => shell[w] \in {"run", "exit 0", "exit 1"}

(* An inode is new when its creator opens it, and the temporary file is never *)
(* the live one.                                                              *)
InodesApart ==
  /\ \A w \in Writers : shell[w] \in {"none", "open"} => config # w /\ tmp # w
  /\ tmp # config

(* What a command writes was validated.                                       *)
SentIsValid ==
  \A w \in Writers : shell[w] \in WriteSteps \union {"open"} => Valid(Holds(read[w]))

(* As long as commands do not overlap: one writes at a time, to the temporary *)
(* file, which holds what it means to write when it is moved.                 *)
OneWrites ==
  ~overlapped =>
    \A v, w \in Writers : shell[v] \in WriteSteps /\ shell[w] \in WriteSteps => v = w
WritesTmp ==
  ~overlapped =>
    \A w \in Writers :
      /\ shell[w] \in {"fill", "move"} => fd[w] = tmp
      /\ shell[w] = "fill" => files[fd[w]] = Empty
      /\ shell[w] = "move" => files[fd[w]] = Holds(read[w])

FileInv == /\ TypeOK /\ ShellFits /\ InodesApart /\ SentIsValid
           /\ OneWrites /\ WritesTmp /\ WholeConfig

----------------------------------------------------------------------------
(* Types.                                                                     *)

(* Each kind of file content is one.                                          *)
LEMMA Contents ==
  /\ Empty \in Content /\ Torn \in Content
  /\ \A c \in Configs : Holds(c) \in Content
  /\ \A c \in Configs : Holds(c).edits = c /\ Whole(Holds(c))
  /\ Holds({}) \in Content /\ Valid(Holds({}))
  BY DEF Empty, Torn, Content, Holds, Configs, Whole, Valid

(* Filling a file leaves it with content.                                     *)
LEMMA OverType ==
  ASSUME NEW old \in Content, NEW new \in Content
  PROVE  Over(old, new) \subseteq Content
  BY Contents DEF Over

(* In the initial state everything has its type.                              *)
LEMMA InitType == Init => TypeOK
<1>. SUFFICES ASSUME Init PROVE TypeOK
  OBVIOUS
<1>1. files \in [Inodes -> Content] /\ config \in Inodes /\ tmp = None
  BY Contents DEF Init, Inodes
<1>2. gw \in [st : {"absent", "starting", "started"}, loaded : Content]
  BY Contents DEF Init
<1>3. /\ cmd \in [Writers -> Commands \union {None}]
      /\ at \in [Writers -> Steps] /\ \A w \in Writers : at[w] = "idle"
      /\ shell \in [Writers -> ShellSteps] /\ \A w \in Writers : shell[w] = "none"
      /\ fd \in [Writers -> Inodes \union {None}]
  BY DEF Init, Steps, ShellSteps
<1>4. /\ read \in [Writers -> Configs] /\ connected \in [Writers -> BOOLEAN]
      /\ polls \in [Writers -> 0..Attempts] /\ faults \in 0..MaxFaults
      /\ cleared \subseteq Writers /\ crossed \in BOOLEAN /\ overlapped \in BOOLEAN
  <2>1. 0 \in 0..Attempts /\ 0 \in 0..MaxFaults
    BY ConfigAssumption
  <2>. QED  BY <2>1 DEF Init, Configs
<1>. QED  BY <1>1, <1>2, <1>3, <1>4 DEF TypeOK, WriteSteps

(* Faults are counted up to their bound.                                      *)
LEMMA FaultsCounted ==
  ASSUME TypeOK, Fault \/ UNCHANGED faults
  PROVE  faults' \in 0..MaxFaults
  BY ConfigAssumption DEF TypeOK, Fault

(* One more below a bound is within it.                                       *)
LEMMA OneMore ==
  ASSUME NEW n \in Nat, NEW k \in 0..n, k < n
  PROVE  k + 1 \in 0..n
  OBVIOUS

(* What a restart can make of the gateway.                                    *)
LEMMA GatewayRecords ==
  ASSUME NEW g \in [st : {"absent", "starting", "started"}, loaded : Content],
         NEW c \in Content
  PROVE  {g, [g EXCEPT !.st = "absent"], [st |-> "starting", loaded |-> c]}
           \subseteq [st : {"absent", "starting", "started"}, loaded : Content]
  OBVIOUS

(* The steps of the client keep the types.                                    *)
LEMMA ClientType ==
  ASSUME TypeOK, NEW w \in Writers,
         Read(w) \/ ClientStep(w) \/ Lose(w) \/ Stop(w)
  PROVE  TypeOK'
<1>. USE DEF TypeOK, Goto, Sh, Steps, Ends, ShellSteps, WriteSteps, file, client, history
<1>1. CASE Read(w)
  <2>1. files[config].edits \union {w} \in Configs
    BY DEF Content, Configs
  <2>2. read' \in [Writers -> Configs]
    BY <1>1, <2>1 DEF Read, Merged
  <2>3. PICK c \in Commands : cmd' = [cmd EXCEPT ![w] = c]
    BY <1>1 DEF Read
  <2>4. cmd' \in [Writers -> Commands \union {None}]
        /\ at' \in [Writers -> Steps]
        /\ \A v \in Writers : at'[v] # "idle" => cmd'[v] \in Commands
    BY <1>1, <2>3 DEF Read
  <2>5. crossed' \in BOOLEAN
    BY <1>1 DEF Read
  <2>6. faults' \in 0..MaxFaults
    BY <1>1, FaultsCounted DEF Read
  <2>. QED  BY <1>1, <2>2, <2>4, <2>5, <2>6 DEF Read
<1>2. CASE Send(w)      BY <1>2 DEF Send
<1>3. CASE Refuse(w)    BY <1>3 DEF Refuse
<1>4. CASE Written(w)   BY <1>4 DEF Written
<1>5. CASE Inspect(w)   BY <1>5 DEF Inspect
<1>6. CASE Ran(w)       BY <1>6 DEF Ran
<1>7. CASE Poll(w)
  <2>1. polls' \in [Writers -> 0..Attempts]
    <3>1. polls[w] \in 0..Attempts
      OBVIOUS
    <3>2. polls[w] < Attempts => polls[w] + 1 \in 0..Attempts
      BY <3>1, OneMore, ConfigAssumption
    <3>. QED  BY <1>7, <3>2 DEF Poll
  <2>. QED  BY <1>7, <2>1 DEF Poll
<1>8. CASE Throws(w)    BY <1>8 DEF Throws
<1>9. CASE Clear(w)
  <2>1. faults' \in 0..MaxFaults
    BY <1>9, FaultsCounted DEF Clear
  <2>. QED  BY <1>9, <2>1 DEF Clear
<1>10. CASE Lose(w)
  <2>1. faults' \in 0..MaxFaults
    BY <1>10, FaultsCounted DEF Lose
  <2>. QED  BY <1>10, <2>1 DEF Lose
<1>11. CASE Stop(w)
  <2>1. faults' \in 0..MaxFaults
    BY <1>11, FaultsCounted DEF Stop
  <2>. QED  BY <1>11, <2>1 DEF Stop
<1>. QED
  BY <1>1, <1>2, <1>3, <1>4, <1>5, <1>6, <1>7, <1>8, <1>9, <1>10, <1>11 DEF ClientStep

(* So do the steps of its command on the host.                                *)
LEMMA ShellType ==
  ASSUME TypeOK, NEW w \in Writers, ShellStep(w)
  PROVE  TypeOK'
<1>. USE DEF TypeOK, Sh, ShellSteps, WriteSteps, file, client, history
<1>1. CASE Open(w)
  <2>1. PICK i \in Inodes : /\ tmp' = i /\ fd' = [fd EXCEPT ![w] = i]
                            /\ files' = [files EXCEPT ![i] = Empty]
    BY <1>1 DEF Open, Inodes
  <2>2. files' \in [Inodes -> Content] /\ tmp' \in Inodes \union {None}
    BY <2>1, Contents
  <2>3. /\ fd' \in [Writers -> Inodes \union {None}]
        /\ shell' \in [Writers -> ShellSteps]
        /\ \A v \in Writers : shell'[v] \in WriteSteps => fd'[v] \in Inodes
    <3>1. fd' \in [Writers -> Inodes \union {None}] /\ fd'[w] \in Inodes
      BY <2>1
    <3>2. shell' \in [Writers -> ShellSteps]
      BY <1>1 DEF Open
    <3>3. \A v \in Writers \ {w} : shell'[v] = shell[v] /\ fd'[v] = fd[v]
      BY <1>1, <2>1 DEF Open
    <3>. QED  BY <3>1, <3>2, <3>3
  <2>4. overlapped' \in BOOLEAN
    BY <1>1 DEF Open
  <2>. QED  BY <1>1, <2>2, <2>3, <2>4 DEF Open
<1>2. CASE Fill(w)
  <2>1. fd[w] \in Inodes /\ files[fd[w]] \in Content /\ Holds(read[w]) \in Content
    BY <1>2, Contents DEF Fill
  <2>2. Over(files[fd[w]], Holds(read[w])) \subseteq Content
    BY <2>1, OverType
  <2>3. files' \in [Inodes -> Content]
    BY <1>2, <2>2, Contents DEF Fill
  <2>4. shell' \in [Writers -> ShellSteps]
        /\ \A v \in Writers : shell'[v] \in WriteSteps => fd[v] \in Inodes
    BY <1>2, <2>1 DEF Fill
  <2>5. faults' \in 0..MaxFaults
    BY <1>2, FaultsCounted DEF Fill
  <2>. QED  BY <1>2, <2>3, <2>4, <2>5 DEF Fill
<1>3. CASE Move(w)
  <2>1. faults' \in 0..MaxFaults
    BY <1>3, FaultsCounted DEF Move
  <2>. QED  BY <1>3, <2>1 DEF Move
<1>4. CASE Chown(w)
  <2>1. faults' \in 0..MaxFaults
    BY <1>4, FaultsCounted DEF Chown
  <2>. QED  BY <1>4, <2>1 DEF Chown
<1>5. CASE Run(w)
  <2>1. gw' \in [st : {"absent", "starting", "started"}, loaded : Content]
    <3>1. gw' \in {gw, [gw EXCEPT !.st = "absent"],
                   [st |-> "starting", loaded |-> files[config]]}
      BY <1>5 DEF Run
    <3>2. gw \in [st : {"absent", "starting", "started"}, loaded : Content]
          /\ files[config] \in Content
      OBVIOUS
    <3>. QED  BY <3>1, <3>2, GatewayRecords
  <2>2. faults' \in 0..MaxFaults
    BY <1>5, FaultsCounted DEF Run
  <2>. QED  BY <1>5, <2>1, <2>2 DEF Run
<1>. QED  BY <1>1, <1>2, <1>3, <1>4, <1>5 DEF ShellStep

(* And those of the gateway.                                                  *)
LEMMA GatewayType ==
  ASSUME TypeOK, GatewayStarts \/ GatewayRestarts
  PROVE  TypeOK'
  BY DEF TypeOK, GatewayStarts, GatewayRestarts, file, client, history
----------------------------------------------------------------------------
(* The file.                                                                  *)

(* In the initial state the file is whole and nothing is sent.                *)
LEMMA InitFile == Init => FileInv
<1>. SUFFICES ASSUME Init PROVE FileInv
  OBVIOUS
<1>1. files[config] = Holds({}) /\ gw.loaded = Holds({})
  BY DEF Init, Inodes
<1>2. WholeConfig
  BY <1>1, Contents DEF WholeConfig
<1>3. \A w \in Writers : at[w] = "idle" /\ shell[w] = "none" /\ config # w /\ tmp # w
  BY ConfigAssumption DEF Init
<1>4. tmp # config
  BY ConfigAssumption DEF Init
<1>. QED
  BY <1>2, <1>3, <1>4, InitType
  DEF FileInv, ShellFits, InodesApart, SentIsValid, OneWrites, WritesTmp, WriteSteps

(* A client's step leaves the files alone.  It sends a write of a config it   *)
(* validated, or a restart.                                                   *)
LEMMA ClientFrame ==
  ASSUME FileInv, NEW w \in Writers, ClientStep(w) \/ Lose(w) \/ Stop(w)
  PROVE  /\ UNCHANGED <<files, config, tmp, fd, gw, read, cmd, crossed, overlapped>>
         /\ \/ UNCHANGED shell
            \/ /\ at[w] = "validate" /\ shell[w] = "none" /\ Valid(Holds(read[w]))
               /\ shell' = [shell EXCEPT ![w] = "open"]
            \/ at[w] = "inspect" /\ connected[w] /\ shell' = [shell EXCEPT ![w] = "run"]
<1>. USE DEF file, client, history, Goto, Sh
<1>1. CASE Send(w)      BY <1>1 DEF Send, FileInv, ShellFits
<1>2. CASE Refuse(w)    BY <1>2 DEF Refuse
<1>3. CASE Written(w)   BY <1>3 DEF Written
<1>4. CASE Inspect(w)   BY <1>4 DEF Inspect
<1>5. CASE Ran(w)       BY <1>5 DEF Ran
<1>6. CASE Poll(w)      BY <1>6 DEF Poll
<1>7. CASE Throws(w)    BY <1>7 DEF Throws
<1>8. CASE Clear(w)     BY <1>8 DEF Clear
<1>9. CASE Lose(w)      BY <1>9 DEF Lose
<1>10. CASE Stop(w)     BY <1>10 DEF Stop
<1>. QED
  BY <1>1, <1>2, <1>3, <1>4, <1>5, <1>6, <1>7, <1>8, <1>9, <1>10 DEF ClientStep

(* Its step and its shell agree afterwards too.                               *)
LEMMA ClientFits ==
  ASSUME FileInv, NEW w \in Writers, ClientStep(w) \/ Lose(w) \/ Stop(w)
  PROVE  ShellFits'
<1>. USE DEF FileInv, TypeOK, ShellFits, Goto, Sh, Ends, file, client, history
<1>1. CASE Send(w)      BY <1>1 DEF Send
<1>2. CASE Refuse(w)    BY <1>2 DEF Refuse
<1>3. CASE Written(w)   BY <1>3 DEF Written
<1>4. CASE Inspect(w)   BY <1>4 DEF Inspect
<1>5. CASE Ran(w)       BY <1>5 DEF Ran
<1>6. CASE Poll(w)      BY <1>6 DEF Poll
<1>7. CASE Throws(w)    BY <1>7 DEF Throws
<1>8. CASE Clear(w)     BY <1>8 DEF Clear
<1>9. CASE Lose(w)      BY <1>9 DEF Lose
<1>10. CASE Stop(w)     BY <1>10 DEF Stop
<1>. QED
  BY <1>1, <1>2, <1>3, <1>4, <1>5, <1>6, <1>7, <1>8, <1>9, <1>10 DEF ClientStep

(* A client's step keeps the invariant of the file.                           *)
LEMMA ClientFile ==
  ASSUME FileInv, NEW w \in Writers, ClientStep(w) \/ Lose(w) \/ Stop(w)
  PROVE  FileInv'
<1>1. /\ UNCHANGED <<files, config, tmp, fd, gw, read, overlapped>>
      /\ \A v \in Writers \ {w} : shell'[v] = shell[v]
      /\ \/ shell'[w] = shell[w]
         \/ shell[w] = "none" /\ Valid(Holds(read[w])) /\ shell'[w] = "open"
         \/ shell'[w] = "run"
  BY ClientFrame DEF FileInv, TypeOK
<1>2. InodesApart'
  BY <1>1 DEF FileInv, InodesApart
<1>3. SentIsValid'
  BY <1>1 DEF FileInv, SentIsValid, WriteSteps, Valid, Holds, Whole
<1>4. OneWrites'
  BY <1>1 DEF FileInv, OneWrites, WriteSteps
<1>5. WritesTmp'
  BY <1>1 DEF FileInv, WritesTmp, Holds, Empty
<1>6. WholeConfig'
  BY <1>1 DEF FileInv, WholeConfig, Valid, Whole
<1>. QED  BY <1>2, <1>3, <1>4, <1>5, <1>6, ClientType, ClientFits DEF FileInv

(* So does the read it starts with: it has sent nothing yet.                  *)
LEMMA ReadFile ==
  ASSUME FileInv, NEW w \in Writers, Read(w)
  PROVE  FileInv'
<1>1. /\ UNCHANGED <<files, config, tmp, fd, gw, shell, overlapped>>
      /\ shell[w] = "none"
      /\ \A v \in Writers \ {w} : read'[v] = read[v] /\ at'[v] = at[v]
      /\ at'[w] # "running"
  BY DEF Read, Merged, FileInv, TypeOK, ShellFits, file, Goto
<1>2. ShellFits' /\ InodesApart'
  BY <1>1 DEF FileInv, ShellFits, InodesApart
<1>3. SentIsValid'
  BY <1>1 DEF FileInv, SentIsValid, WriteSteps, Valid, Holds, Whole
<1>4. OneWrites'
  BY <1>1 DEF FileInv, OneWrites, WriteSteps
<1>5. WritesTmp'
  BY <1>1 DEF FileInv, WritesTmp, Holds, Empty
<1>6. WholeConfig'
  BY <1>1 DEF FileInv, WholeConfig, Valid, Whole
<1>. QED  BY <1>2, <1>3, <1>4, <1>5, <1>6, ClientType DEF FileInv

(* The redirection opens a file that is not the live one.                     *)
LEMMA OpenFile ==
  ASSUME FileInv, NEW w \in Writers, Open(w)
  PROVE  FileInv'
<1>. DEFINE i == IF tmp = None THEN w ELSE tmp
<1>1. /\ shell[w] = "open" /\ shell'[w] = "fill"
      /\ \A v \in Writers \ {w} : shell'[v] = shell[v] /\ fd'[v] = fd[v]
      /\ tmp' = i /\ fd'[w] = i /\ UNCHANGED <<config, gw, read, at>>
      /\ overlapped' = (overlapped \/ \E v \in Writers \ {w} : shell[v] \in WriteSteps)
  BY DEF Open, Sh, FileInv, TypeOK, client
<1>2. i \in Inodes /\ i # config
  BY <1>1 DEF FileInv, TypeOK, InodesApart, Inodes
<1>3. files'[i] = Empty /\ \A j \in Inodes \ {i} : files'[j] = files[j]
  BY <1>2 DEF Open, FileInv, TypeOK
<1>4. TypeOK'
  BY ShellType DEF ShellStep, FileInv
<1>5. ShellFits'
  BY <1>1 DEF FileInv, ShellFits
<1>6. InodesApart'
  BY <1>1, <1>2 DEF FileInv, InodesApart
<1>7. SentIsValid'
  BY <1>1 DEF FileInv, SentIsValid, WriteSteps, Valid, Holds, Whole
<1>8. ~overlapped' => ~overlapped /\ \A v \in Writers \ {w} : shell'[v] \notin WriteSteps
  BY <1>1
<1>9. OneWrites'
  BY <1>8 DEF OneWrites
<1>10. WritesTmp'
  BY <1>1, <1>3, <1>8 DEF WritesTmp, WriteSteps, Empty
<1>11. WholeConfig'
  <2>1. config \in Inodes
    BY DEF FileInv, TypeOK
  <2>2. files'[config'] = files[config] /\ gw' = gw
    BY <1>1, <1>2, <1>3, <2>1
  <2>. QED  BY <1>8, <2>2 DEF FileInv, WholeConfig, Valid, Whole
<1>. QED  BY <1>4, <1>5, <1>6, <1>7, <1>9, <1>10, <1>11 DEF FileInv

(* While commands do not overlap, a fill writes the whole config over an      *)
(* empty file, which is not the live one, or fails.                           *)
LEMMA FillWrites ==
  ASSUME FileInv, NEW w \in Writers, Fill(w), ~overlapped
  PROVE  /\ fd[w] = tmp /\ tmp \in Inodes /\ tmp # config
         /\ \/ shell'[w] = "exit 1"
            \/ shell'[w] = "move" /\ files'[tmp] = Holds(read[w])
<1>1. fd[w] = tmp /\ tmp \in Inodes /\ files[tmp] = Empty /\ tmp # config
  BY DEF Fill, FileInv, TypeOK, WritesTmp, InodesApart, WriteSteps
<1>2. Over(files[fd[w]], Holds(read[w])) = {Holds(read[w])}
  BY <1>1 DEF Over
<1>. QED  BY <1>1, <1>2 DEF Fill, Sh, FileInv, TypeOK

(* A fill keeps the invariant of the file.                                    *)
LEMMA FillFile ==
  ASSUME FileInv, NEW w \in Writers, Fill(w)
  PROVE  FileInv'
<1>1. /\ shell[w] = "fill" /\ shell'[w] \in {"move", "exit 1"}
      /\ \A v \in Writers \ {w} : shell'[v] = shell[v]
      /\ UNCHANGED <<config, tmp, fd, gw, read, at, overlapped>>
      /\ \A j \in Inodes \ {fd[w]} : files'[j] = files[j]
  BY DEF Fill, Sh, FileInv, TypeOK, client, history
<1>2. TypeOK'
  BY ShellType DEF ShellStep, FileInv
<1>3. ShellFits' /\ InodesApart'
  BY <1>1 DEF FileInv, ShellFits, InodesApart
<1>4. SentIsValid'
  BY <1>1 DEF FileInv, SentIsValid, WriteSteps, Valid, Holds, Whole
<1>5. OneWrites'
  BY <1>1 DEF FileInv, OneWrites, WriteSteps
<1>6. WritesTmp'
  <2>. SUFFICES ASSUME ~overlapped, NEW v \in Writers, shell'[v] \in {"fill", "move"}
                PROVE  fd[v] = tmp /\ shell'[v] = "move" /\ files'[fd[v]] = Holds(read[v])
    BY <1>1 DEF WritesTmp, Holds
  <2>1. v = w
    BY <1>1 DEF FileInv, OneWrites, WriteSteps
  <2>. QED  BY <2>1, <1>1, FillWrites
<1>7. WholeConfig'
  <2>. SUFFICES ASSUME ~overlapped PROVE Valid(files[config])' /\ Valid(gw.loaded)'
    BY <1>1 DEF WholeConfig
  <2>1. files'[config'] = files[config]
    BY <1>1, FillWrites DEF FileInv, TypeOK
  <2>. QED  BY <1>1, <2>1 DEF FileInv, WholeConfig, Valid, Whole
<1>. QED  BY <1>2, <1>3, <1>4, <1>5, <1>6, <1>7 DEF FileInv

(* A move installs what its run means to write.                               *)
LEMMA MoveInstalls ==
  ASSUME FileInv, NEW w \in Writers, Move(w), ~overlapped
  PROVE  \/ config' = config /\ tmp' = tmp /\ shell'[w] = "exit 1"
         \/ /\ tmp \in Inodes /\ config' = tmp /\ tmp' = None /\ shell'[w] = "chown"
            /\ files[config'] = Holds(read[w]) /\ Valid(Holds(read[w]))
<1>1. fd[w] = tmp /\ files[tmp] = Holds(read[w]) /\ tmp \in Inodes
  BY DEF Move, FileInv, TypeOK, WritesTmp, WriteSteps
<1>2. Valid(Holds(read[w]))
  BY DEF Move, FileInv, SentIsValid, WriteSteps
<1>. QED  BY <1>1, <1>2 DEF Move, Sh, FileInv, TypeOK

(* A move keeps the invariant of the file.                                    *)
LEMMA MoveFile ==
  ASSUME FileInv, NEW w \in Writers, Move(w)
  PROVE  FileInv'
<1>1. /\ shell[w] = "move" /\ shell'[w] \in {"chown", "exit 1"}
      /\ \A v \in Writers \ {w} : shell'[v] = shell[v]
      /\ UNCHANGED <<files, fd, gw, read, at, overlapped>>
  BY DEF Move, Sh, FileInv, TypeOK, client, history
<1>2. TypeOK'
  BY ShellType DEF ShellStep, FileInv
<1>3. ShellFits'
  BY <1>1 DEF FileInv, ShellFits
<1>4. InodesApart'
  <2>1. \/ config' = tmp /\ tmp' = None
        \/ config' = config /\ tmp' = tmp
    BY DEF Move
  <2>2. tmp' # config'
    BY <2>1, <1>2, ConfigAssumption DEF FileInv, InodesApart, TypeOK, Inodes
  <2>. QED  BY <2>1, <2>2, <1>1, ConfigAssumption DEF FileInv, InodesApart
<1>5. SentIsValid'
  BY <1>1 DEF FileInv, SentIsValid, WriteSteps, Valid, Holds, Whole
<1>6. OneWrites'
  BY <1>1 DEF FileInv, OneWrites, WriteSteps
<1>7. WritesTmp'
  <2>. SUFFICES ASSUME ~overlapped, NEW v \in Writers, shell'[v] \in {"fill", "move"}
                PROVE  FALSE
    BY <1>1 DEF WritesTmp
  <2>. QED  BY <1>1 DEF FileInv, OneWrites, WriteSteps
<1>8. WholeConfig'
  <2>. SUFFICES ASSUME ~overlapped PROVE Valid(files[config])' /\ Valid(gw.loaded)'
    BY <1>1 DEF WholeConfig
  <2>. QED  BY <1>1, MoveInstalls DEF FileInv, WholeConfig, Valid, Whole
<1>. QED  BY <1>2, <1>3, <1>4, <1>5, <1>6, <1>7, <1>8 DEF FileInv

(* The end of the command leaves the files alone, and so does a restart of    *)
(* the gateway, which loads the live one.                                     *)
LEMMA RestFile ==
  ASSUME FileInv, NEW w \in Writers, Chown(w) \/ Run(w)
  PROVE  FileInv'
<1>1. /\ UNCHANGED <<files, config, tmp, fd, read, at, overlapped>>
      /\ shell[w] \in {"chown", "run"} /\ shell'[w] \in {"exit 0", "exit 1"}
      /\ \A v \in Writers \ {w} : shell'[v] = shell[v]
      /\ gw'.loaded \in {gw.loaded, files[config]}
  <2>1. CASE Chown(w)
    BY <2>1 DEF Chown, Sh, FileInv, TypeOK, file, client, history
  <2>2. CASE Run(w)
    <3>1. gw' \in {gw, [gw EXCEPT !.st = "absent"],
                   [st |-> "starting", loaded |-> files[config]]}
      BY <2>2 DEF Run
    <3>2. gw'.loaded \in {gw.loaded, files[config]}
      BY <3>1 DEF FileInv, TypeOK
    <3>. QED  BY <2>2, <3>2 DEF Run, Sh, FileInv, TypeOK, file, client, history
  <2>. QED  BY <2>1, <2>2
<1>2. TypeOK'
  BY ShellType DEF ShellStep, FileInv
<1>3. ShellFits' /\ InodesApart'
  BY <1>1 DEF FileInv, ShellFits, InodesApart
<1>4. SentIsValid'
  BY <1>1 DEF FileInv, SentIsValid, WriteSteps, Valid, Holds, Whole
<1>5. OneWrites'
  BY <1>1 DEF FileInv, OneWrites, WriteSteps
<1>6. WritesTmp'
  BY <1>1 DEF FileInv, WritesTmp, Holds, Empty
<1>7. WholeConfig'
  BY <1>1 DEF FileInv, WholeConfig, Valid, Whole
<1>. QED  BY <1>2, <1>3, <1>4, <1>5, <1>6, <1>7 DEF FileInv

(* The gateway by itself loads the live file at most.                         *)
LEMMA GatewayFile ==
  ASSUME FileInv, GatewayStarts \/ GatewayRestarts
  PROVE  FileInv'
<1>1. /\ UNCHANGED <<files, config, tmp, fd, read, at, shell, overlapped>>
      /\ gw'.loaded \in {gw.loaded, files[config]}
  BY DEF GatewayStarts, GatewayRestarts, FileInv, TypeOK, file, client, history
<1>2. TypeOK'
  BY GatewayType DEF FileInv
<1>3. ShellFits' /\ InodesApart' /\ SentIsValid' /\ OneWrites' /\ WritesTmp'
  BY <1>1 DEF FileInv, ShellFits, InodesApart, SentIsValid, OneWrites, WritesTmp,
              Valid, Holds, Whole, Empty
<1>4. WholeConfig'
  BY <1>1 DEF FileInv, WholeConfig, Valid, Whole
<1>. QED  BY <1>2, <1>3, <1>4 DEF FileInv

(* Every step keeps the invariant of the file.                                *)
LEMMA NextFile == FileInv /\ [Next]_vars => FileInv'
<1>. SUFFICES ASSUME FileInv, [Next]_vars PROVE FileInv'
  OBVIOUS
<1>1. ASSUME NEW w \in Writers,
             Read(w) \/ ClientStep(w) \/ ShellStep(w) \/ Lose(w) \/ Stop(w)
      PROVE  FileInv'
  BY <1>1, ReadFile, ClientFile, OpenFile, FillFile, MoveFile, RestFile DEF ShellStep
<1>2. CASE UNCHANGED vars
  BY <1>2 DEF vars, file, client, history, FileInv, TypeOK, ShellFits, InodesApart,
              SentIsValid, OneWrites, WritesTmp, WholeConfig, Valid, Holds, Whole, Empty
<1>. QED  BY <1>1, <1>2, GatewayFile DEF Next

----------------------------------------------------------------------------
(* What a run may say, as long as no run read the file in the window of       *)
(* another.                                                                   *)

(* Write commands that overlap belong to runs that crossed, and otherwise     *)
(* there is one window at a time.                                             *)
OneWindow ==
  /\ overlapped => crossed
  /\ ~crossed => \A v, w \in Writers : InWindow(v) /\ InWindow(w) => v = w

(* Until it is moved, what a run means to write is the live config and its    *)
(* edit.                                                                      *)
ReadIsFresh ==
  ~crossed =>
    \A w \in Writers :
      at[w] = "validate" \/ shell[w] \in {"open", "fill", "move"}
        => w \in read[w] /\ files[config].edits \subseteq read[w]

(* Runs whose command moved its config, or that went on from its end.         *)
HasWritten(w) ==
  \/ shell[w] \in {"chown", "exit 0", "run"}
  \/ at[w] = "inspect" /\ connected[w]
  \/ at[w] \in {"running", "waiting"}
  \/ at[w] \in {"clear", "ok"} /\ (cmd[w].restart \/ connected[w])

(* Runs that restarted the gateway, or that went on from there.               *)
HasLoaded(w) ==
  \/ at[w] = "running" /\ shell[w] = "exit 0"
  \/ at[w] = "waiting" /\ connected[w]
  \/ at[w] \in {"clear", "ok"} /\ cmd[w].restart

(* The live config carries the edits of the ones, and the gateway has loaded  *)
(* those of the others, and nothing that is not in the file.                  *)
WrittenIsThere ==
  ~crossed => \A w \in Writers : HasWritten(w) => w \in files[config].edits
LoadedIsThere ==
  ~crossed =>
    /\ gw.loaded.edits \subseteq files[config].edits
    /\ \A w \in Writers : HasLoaded(w) => w \in gw.loaded.edits

(* Only a run that succeeded cleared its request.                             *)
ClearedIsOk == \A w \in cleared : at[w] = "ok"

SaidInv == /\ OneWindow /\ ReadIsFresh /\ WrittenIsThere
           /\ LoadedIsThere /\ ClearedIsOk /\ ClearedWasDone

Inv == FileInv /\ SaidInv

(* In the initial state nobody has said anything.                             *)
LEMMA InitSaid == Init => SaidInv
<1>. SUFFICES ASSUME Init PROVE SaidInv
  OBVIOUS
<1>1. \A w \in Writers : at[w] = "idle" /\ shell[w] = "none"
  BY DEF Init
<1>2. cleared = {} /\ ~overlapped /\ gw.loaded = files[config]
  BY DEF Init, Inodes
<1>. QED
  BY <1>1, <1>2
  DEF SaidInv, OneWindow, InWindow, WriteSteps, ReadIsFresh, WrittenIsThere,
      LoadedIsThere, ClearedIsOk, ClearedWasDone, HasWritten, HasLoaded

(* A read opens a window; it is crossed if there is another.                  *)
LEMMA ReadSaid ==
  ASSUME Inv, NEW w \in Writers, Read(w)
  PROVE  SaidInv'
<1>1. /\ UNCHANGED <<files, config, gw, shell, connected, cleared, overlapped>>
      /\ shell[w] = "none" /\ at[w] = "idle" /\ at'[w] \in {"validate", "failed"}
      /\ crossed' = (crossed \/ \E v \in Writers \ {w} : InWindow(v))
      /\ \A v \in Writers \ {w} :
           read'[v] = read[v] /\ at'[v] = at[v] /\ cmd'[v] = cmd[v]
      /\ at'[w] = "validate" => read'[w] = files[config].edits \union {w}
  BY DEF Read, Merged, Inv, FileInv, TypeOK, ShellFits, file, Goto
<1>2. OneWindow'
  BY <1>1 DEF Inv, SaidInv, OneWindow, InWindow
<1>3. ReadIsFresh'
  BY <1>1 DEF Inv, SaidInv, ReadIsFresh
<1>4. WrittenIsThere'
  BY <1>1 DEF Inv, SaidInv, WrittenIsThere, HasWritten
<1>5. LoadedIsThere'
  BY <1>1 DEF Inv, SaidInv, LoadedIsThere, HasLoaded
<1>6. w \notin cleared
  BY <1>1 DEF Inv, SaidInv, ClearedIsOk
<1>7. ClearedIsOk' /\ ClearedWasDone'
  BY <1>1, <1>6 DEF Inv, FileInv, TypeOK, SaidInv, ClearedIsOk, ClearedWasDone
<1>. QED  BY <1>2, <1>3, <1>4, <1>5, <1>7 DEF SaidInv

(* A client's step moves on only when what it goes on from was done: with the *)
(* session open, the exit status is that of the command.                      *)
LEMMA ClientMoves ==
  ASSUME Inv, NEW w \in Writers, ClientStep(w) \/ Lose(w) \/ Stop(w)
  PROVE  /\ \A v \in Writers \ {w} : at'[v] = at[v] /\ connected'[v] = connected[v]
         /\ connected'[w] => connected[w]
         /\ \/ at'[w] \in {"failed", "refused", "stopped"}
            \/ at'[w] = at[w] /\ shell'[w] = shell[w]
            \/ at[w] = "validate" /\ at'[w] = "writing"
            \/ /\ at[w] = "writing" /\ shell'[w] = shell[w]
               /\ \/ at'[w] = "inspect"
                  \/ at'[w] = "clear" /\ ~cmd[w].restart
               /\ connected[w] => shell[w] = "exit 0"
            \/ at[w] = "inspect" /\ connected[w] /\ at'[w] = "running" /\ shell'[w] = "run"
            \/ /\ at[w] = "running" /\ at'[w] = "waiting" /\ shell'[w] = shell[w]
               /\ connected[w] => shell[w] = "exit 0"
            \/ /\ at[w] = "waiting" /\ at'[w] = "clear" /\ shell'[w] = shell[w]
               /\ connected[w]
            \/ at[w] = "clear" /\ at'[w] = "ok" /\ shell'[w] = shell[w]
         /\ at[w] \notin {"ok"}
<1>. USE DEF Inv, FileInv, TypeOK, file, client, history, Goto, Sh, Ends, ReadsAsDone
<1>1. CASE Send(w)      BY <1>1 DEF Send
<1>2. CASE Refuse(w)    BY <1>2 DEF Refuse
<1>3. CASE Written(w)   BY <1>3 DEF Written
<1>4. CASE Inspect(w)   BY <1>4 DEF Inspect
<1>5. CASE Ran(w)       BY <1>5 DEF Ran
<1>6. CASE Poll(w)      BY <1>6 DEF Poll
<1>7. CASE Throws(w)    BY <1>7 DEF Throws
<1>8. CASE Clear(w)     BY <1>8 DEF Clear
<1>9. CASE Lose(w)      BY <1>9 DEF Lose
<1>10. CASE Stop(w)     BY <1>10 DEF Stop
<1>. QED
  BY <1>1, <1>2, <1>3, <1>4, <1>5, <1>6, <1>7, <1>8, <1>9, <1>10 DEF ClientStep

(* A request is cleared with the session open.                                *)
LEMMA ClientClears ==
  ASSUME Inv, NEW w \in Writers, ClientStep(w) \/ Lose(w) \/ Stop(w)
  PROVE  \/ cleared' = cleared
         \/ /\ at[w] = "clear" /\ at'[w] = "ok" /\ connected[w]
            /\ cleared' = cleared \union {w}
<1>. USE DEF Inv, FileInv, TypeOK, client, Goto
<1>1. CASE Clear(w)
  BY <1>1 DEF Clear
<1>2. CASE ~Clear(w)
  BY <1>2 DEF ClientStep, Send, Refuse, Written, Inspect, Ran, Poll, Throws, Lose, Stop
<1>. QED  BY <1>1, <1>2

(* A client's step keeps what runs may say.                                   *)
LEMMA ClientSaid ==
  ASSUME Inv, NEW w \in Writers, ClientStep(w) \/ Lose(w) \/ Stop(w)
  PROVE  SaidInv'
<1>1. /\ UNCHANGED <<files, config, gw, read, cmd, crossed, overlapped>>
      /\ \A v \in Writers \ {w} :
           shell'[v] = shell[v] /\ at'[v] = at[v] /\ connected'[v] = connected[v]
  <2>1. UNCHANGED <<files, config, gw, read, cmd, crossed, overlapped>>
    BY ClientFrame DEF Inv
  <2>2. \A v \in Writers \ {w} : shell'[v] = shell[v]
    BY ClientFrame DEF Inv, FileInv, TypeOK
  <2>. QED  BY <2>1, <2>2, ClientMoves
<1>2. \/ shell'[w] = shell[w]
      \/ at[w] = "validate" /\ shell'[w] = "open"
      \/ at[w] = "inspect" /\ connected[w] /\ shell'[w] = "run"
  BY ClientFrame DEF Inv, FileInv, TypeOK
<1>3. at'[w] \in {"validate", "writing"} => at[w] \in {"validate", "writing"}
  BY ClientMoves
<1>4. at'[w] = "validate" => at[w] = "validate"
  BY ClientMoves
<1>5. OneWindow'
  <2>1. \A v \in Writers : InWindow(v)' => InWindow(v)
    BY <1>1, <1>2, <1>3 DEF InWindow, WriteSteps
  <2>. QED  BY <1>1, <2>1 DEF Inv, SaidInv, OneWindow
<1>6. ReadIsFresh'
  BY <1>1, <1>2, <1>4 DEF Inv, SaidInv, ReadIsFresh
<1>7. WrittenIsThere'
  <2>1. \A v \in Writers \ {w} : HasWritten(v)' => HasWritten(v)
    BY <1>1 DEF HasWritten
  <2>2. HasWritten(w)' => HasWritten(w)
    BY <1>1, <1>2, ClientMoves DEF HasWritten
  <2>. QED  BY <1>1, <2>1, <2>2 DEF Inv, SaidInv, WrittenIsThere
<1>8. LoadedIsThere'
  <2>1. \A v \in Writers \ {w} : HasLoaded(v)' => HasLoaded(v)
    BY <1>1 DEF HasLoaded
  <2>2. HasLoaded(w)' => HasLoaded(w)
    BY <1>1, <1>2, ClientMoves DEF HasLoaded
  <2>. QED  BY <1>1, <2>1, <2>2 DEF Inv, SaidInv, LoadedIsThere
<1>9. ClearedIsOk'
  <2>1. \A v \in cleared : at'[v] = "ok"
    BY <1>1, ClientMoves DEF Inv, FileInv, TypeOK, SaidInv, ClearedIsOk
  <2>. QED  BY <2>1, ClientClears DEF ClearedIsOk
<1>10. ClearedWasDone'
  <2>1. CASE cleared' = cleared
    BY <1>1, <2>1 DEF Inv, SaidInv, ClearedWasDone
  <2>2. CASE at[w] = "clear" /\ connected[w] /\ cleared' = cleared \union {w}
    BY <1>1, <2>2 DEF Inv, SaidInv, ClearedWasDone, WrittenIsThere, LoadedIsThere,
                       HasWritten, HasLoaded
  <2>. QED  BY <2>1, <2>2, ClientClears
<1>. QED  BY <1>5, <1>6, <1>7, <1>8, <1>9, <1>10 DEF SaidInv

(* A run whose command has begun is in its window, and if nothing crossed no  *)
(* other is.                                                                  *)
LEMMA Alone ==
  ASSUME Inv, NEW w \in Writers, shell[w] \in WriteSteps \union {"open"}, ~crossed
  PROVE  /\ ~overlapped
         /\ \A v \in Writers \ {w} :
              ~InWindow(v) /\ at[v] # "validate" /\ shell[v] \notin {"open", "fill", "move"}
<1>1. InWindow(w)
  BY DEF InWindow
<1>. QED  BY <1>1 DEF Inv, SaidInv, OneWindow, InWindow, WriteSteps

(* The redirection keeps what runs may say: the live file is another one.     *)
LEMMA OpenSaid ==
  ASSUME Inv, NEW w \in Writers, Open(w)
  PROVE  SaidInv'
<1>1. /\ shell[w] = "open" /\ shell'[w] = "fill"
      /\ \A v \in Writers \ {w} : shell'[v] = shell[v]
      /\ UNCHANGED <<config, gw, cmd, at, read, connected, cleared, crossed>>
      /\ overlapped' = (overlapped \/ \E v \in Writers \ {w} : shell[v] \in WriteSteps)
  BY DEF Open, Sh, Inv, FileInv, TypeOK, client
<1>2. files'[config] = files[config]
  <2>. DEFINE i == IF tmp = None THEN w ELSE tmp
  <2>1. i # config
    BY <1>1 DEF Inv, FileInv, InodesApart
  <2>. QED  BY <2>1 DEF Open, Inv, FileInv, TypeOK
<1>3. OneWindow'
  <2>1. \A v \in Writers : InWindow(v)' => InWindow(v)
    BY <1>1 DEF InWindow, WriteSteps
  <2>2. overlapped' => crossed
    BY <1>1, Alone DEF Inv, SaidInv, OneWindow, InWindow
  <2>. QED  BY <1>1, <2>1, <2>2 DEF Inv, SaidInv, OneWindow
<1>4. ReadIsFresh'
  BY <1>1, <1>2 DEF Inv, SaidInv, ReadIsFresh
<1>5. WrittenIsThere' /\ LoadedIsThere'
  BY <1>1, <1>2 DEF Inv, SaidInv, WrittenIsThere, LoadedIsThere, HasWritten, HasLoaded
<1>6. ClearedIsOk' /\ ClearedWasDone'
  BY <1>1, <1>2 DEF Inv, SaidInv, ClearedIsOk, ClearedWasDone
<1>. QED  BY <1>3, <1>4, <1>5, <1>6 DEF SaidInv

(* So does a fill.                                                            *)
LEMMA FillSaid ==
  ASSUME Inv, NEW w \in Writers, Fill(w)
  PROVE  SaidInv'
<1>1. /\ shell[w] = "fill" /\ shell'[w] \in {"move", "exit 1"}
      /\ \A v \in Writers \ {w} : shell'[v] = shell[v]
      /\ UNCHANGED <<config, gw, cmd, at, read, connected, cleared, crossed, overlapped>>
  BY DEF Fill, Sh, Inv, FileInv, TypeOK, client, history
<1>2. ~crossed => files'[config] = files[config]
  <2>. SUFFICES ASSUME ~crossed PROVE files'[config] = files[config]
    OBVIOUS
  <2>1. fd[w] # config
    BY <1>1, Alone, FillWrites DEF Inv, WriteSteps
  <2>. QED  BY <2>1 DEF Fill, Inv, FileInv, TypeOK
<1>3. OneWindow'
  <2>1. \A v \in Writers : InWindow(v)' => InWindow(v)
    BY <1>1 DEF InWindow, WriteSteps
  <2>. QED  BY <1>1, <2>1 DEF Inv, SaidInv, OneWindow
<1>4. ReadIsFresh'
  BY <1>1, <1>2 DEF Inv, SaidInv, ReadIsFresh
<1>5. WrittenIsThere' /\ LoadedIsThere'
  BY <1>1, <1>2 DEF Inv, SaidInv, WrittenIsThere, LoadedIsThere, HasWritten, HasLoaded
<1>6. ClearedIsOk' /\ ClearedWasDone'
  BY <1>1, <1>2 DEF Inv, SaidInv, ClearedIsOk, ClearedWasDone
<1>. QED  BY <1>3, <1>4, <1>5, <1>6 DEF SaidInv

(* A move takes the live config from one to another that carries more.        *)
LEMMA MoveSaid ==
  ASSUME Inv, NEW w \in Writers, Move(w)
  PROVE  SaidInv'
<1>1. /\ shell[w] = "move" /\ shell'[w] \in {"chown", "exit 1"}
      /\ \A v \in Writers \ {w} : shell'[v] = shell[v]
      /\ UNCHANGED <<files, gw, cmd, at, read, connected, cleared, crossed, overlapped>>
  BY DEF Move, Sh, Inv, FileInv, TypeOK, client, history
<1>2. ASSUME ~crossed
      PROVE  /\ files[config].edits \subseteq files[config'].edits
             /\ shell'[w] = "chown" => w \in files[config'].edits
  <2>1. \/ config' = config /\ shell'[w] = "exit 1"
        \/ files[config'] = Holds(read[w])
    BY <1>1, <1>2, Alone, MoveInstalls DEF Inv, WriteSteps
  <2>2. w \in read[w] /\ files[config].edits \subseteq read[w]
    BY <1>1, <1>2 DEF Inv, SaidInv, ReadIsFresh
  <2>3. Holds(read[w]).edits = read[w]
    BY DEF Holds
  <2>4. CASE config' = config /\ shell'[w] = "exit 1"
    BY <2>4
  <2>5. CASE files[config'] = Holds(read[w])
    BY <2>2, <2>3, <2>5
  <2>. QED  BY <2>1, <2>4, <2>5
<1>3. OneWindow'
  <2>1. \A v \in Writers : InWindow(v)' => InWindow(v)
    BY <1>1 DEF InWindow, WriteSteps
  <2>. QED  BY <1>1, <2>1 DEF Inv, SaidInv, OneWindow
<1>4. ReadIsFresh'
  <2>. SUFFICES ASSUME ~crossed, NEW v \in Writers,
                       at[v] = "validate" \/ shell'[v] \in {"open", "fill", "move"}
                PROVE  FALSE
    BY <1>1 DEF ReadIsFresh
  <2>1. v # w
    BY <1>1 DEF Inv, FileInv, ShellFits
  <2>. QED  BY <1>1, <2>1, Alone DEF WriteSteps
<1>5. WrittenIsThere'
  <2>. SUFFICES ASSUME ~crossed, NEW v \in Writers, HasWritten(v)'
                PROVE  v \in files[config'].edits
    BY <1>1 DEF WrittenIsThere
  <2>1. HasWritten(v) \/ (v = w /\ shell'[w] = "chown")
    BY <1>1 DEF HasWritten
  <2>. QED  BY <1>2, <2>1 DEF Inv, SaidInv, WrittenIsThere
<1>6. LoadedIsThere'
  <2>1. \A v \in Writers : HasLoaded(v)' => HasLoaded(v)
    BY <1>1 DEF HasLoaded
  <2>. QED  BY <1>1, <1>2, <2>1 DEF Inv, SaidInv, LoadedIsThere
<1>7. ClearedIsOk' /\ ClearedWasDone'
  BY <1>1, <1>2 DEF Inv, SaidInv, ClearedIsOk, ClearedWasDone
<1>. QED  BY <1>3, <1>4, <1>5, <1>6, <1>7 DEF SaidInv

(* The end of the command says that the edit is there.                        *)
LEMMA ChownSaid ==
  ASSUME Inv, NEW w \in Writers, Chown(w)
  PROVE  SaidInv'
<1>1. /\ shell[w] = "chown" /\ shell'[w] \in {"exit 0", "exit 1"}
      /\ \A v \in Writers \ {w} : shell'[v] = shell[v]
      /\ UNCHANGED <<files, config, gw, cmd, at, read, connected, cleared>>
      /\ UNCHANGED <<crossed, overlapped>>
  BY DEF Chown, Sh, Inv, FileInv, TypeOK, file, client, history
<1>2. OneWindow'
  <2>1. \A v \in Writers : InWindow(v)' => InWindow(v)
    BY <1>1 DEF InWindow, WriteSteps
  <2>. QED  BY <1>1, <2>1 DEF Inv, SaidInv, OneWindow
<1>3. ReadIsFresh'
  BY <1>1 DEF Inv, SaidInv, ReadIsFresh
<1>4. WrittenIsThere'
  <2>1. \A v \in Writers : HasWritten(v)' => HasWritten(v)
    BY <1>1 DEF HasWritten
  <2>. QED  BY <1>1, <2>1 DEF Inv, SaidInv, WrittenIsThere
<1>5. LoadedIsThere'
  <2>1. \A v \in Writers : HasLoaded(v)' => HasLoaded(v)
    BY <1>1 DEF HasLoaded, Inv, FileInv, ShellFits
  <2>. QED  BY <1>1, <2>1 DEF Inv, SaidInv, LoadedIsThere
<1>6. ClearedIsOk' /\ ClearedWasDone'
  BY <1>1 DEF Inv, SaidInv, ClearedIsOk, ClearedWasDone
<1>. QED  BY <1>2, <1>3, <1>4, <1>5, <1>6 DEF SaidInv

(* A restart that exits 0 has loaded the live config.                         *)
LEMMA RunSaid ==
  ASSUME Inv, NEW w \in Writers, Run(w)
  PROVE  SaidInv'
<1>1. /\ shell[w] = "run" /\ shell'[w] \in {"exit 0", "exit 1"}
      /\ \A v \in Writers \ {w} : shell'[v] = shell[v]
      /\ UNCHANGED <<files, config, cmd, at, read, connected, cleared>>
      /\ UNCHANGED <<crossed, overlapped>>
  BY DEF Run, Sh, Inv, FileInv, TypeOK, file, client, history
<1>2. \/ gw'.loaded = files[config]
      \/ gw'.loaded = gw.loaded /\ shell'[w] = "exit 1"
  <2>1. \/ gw' = [st |-> "starting", loaded |-> files[config]]
        \/ gw' \in {gw, [gw EXCEPT !.st = "absent"]} /\ shell'[w] = "exit 1"
    BY DEF Run, Sh, Inv, FileInv, TypeOK
  <2>2. gw' \in {gw, [gw EXCEPT !.st = "absent"]} => gw'.loaded = gw.loaded
    BY DEF Inv, FileInv, TypeOK
  <2>3. gw' = [st |-> "starting", loaded |-> files[config]] => gw'.loaded = files[config]
    OBVIOUS
  <2>. QED  BY <2>1, <2>2, <2>3
<1>3. OneWindow'
  <2>1. \A v \in Writers : InWindow(v)' => InWindow(v)
    BY <1>1 DEF InWindow, WriteSteps
  <2>. QED  BY <1>1, <2>1 DEF Inv, SaidInv, OneWindow
<1>4. ReadIsFresh'
  BY <1>1 DEF Inv, SaidInv, ReadIsFresh
<1>5. \A v \in Writers : HasWritten(v)' => HasWritten(v)
  BY <1>1 DEF HasWritten
<1>6. WrittenIsThere'
  BY <1>1, <1>5 DEF Inv, SaidInv, WrittenIsThere
<1>7. LoadedIsThere'
  <2>. SUFFICES ASSUME ~crossed
                PROVE  /\ gw'.loaded.edits \subseteq files[config].edits
                       /\ \A v \in Writers : HasLoaded(v)' => v \in gw'.loaded.edits
    BY <1>1 DEF LoadedIsThere
  <2>1. CASE gw'.loaded = files[config]
    <3>1. \A v \in Writers : HasLoaded(v)' => HasLoaded(v) \/ HasWritten(v)
      BY <1>1 DEF HasLoaded, HasWritten
    <3>. QED
      BY <2>1, <3>1 DEF Inv, SaidInv, WrittenIsThere, LoadedIsThere
  <2>2. CASE gw'.loaded = gw.loaded /\ shell'[w] = "exit 1"
    <3>1. \A v \in Writers : HasLoaded(v)' => HasLoaded(v)
      BY <1>1, <2>2 DEF HasLoaded
    <3>. QED  BY <2>2, <3>1 DEF Inv, SaidInv, LoadedIsThere
  <2>. QED  BY <1>2, <2>1, <2>2
<1>8. ClearedIsOk' /\ ClearedWasDone'
  BY <1>1, <1>2 DEF Inv, SaidInv, ClearedIsOk, ClearedWasDone, LoadedIsThere
<1>. QED  BY <1>3, <1>4, <1>6, <1>7, <1>8 DEF SaidInv

(* So has a gateway that starts again by itself.                              *)
LEMMA GatewaySaid ==
  ASSUME Inv, GatewayStarts \/ GatewayRestarts
  PROVE  SaidInv'
<1>1. /\ UNCHANGED <<files, config, cmd, at, read, connected, cleared, shell>>
      /\ UNCHANGED <<crossed, overlapped>>
      /\ gw'.loaded \in {gw.loaded, files[config]}
  BY DEF GatewayStarts, GatewayRestarts, Inv, FileInv, TypeOK, file, client, history
<1>2. OneWindow' /\ ReadIsFresh'
  BY <1>1 DEF Inv, SaidInv, OneWindow, InWindow, ReadIsFresh
<1>3. WrittenIsThere' /\ LoadedIsThere'
  BY <1>1 DEF Inv, SaidInv, WrittenIsThere, LoadedIsThere, HasWritten, HasLoaded
<1>4. ClearedIsOk' /\ ClearedWasDone'
  BY <1>1 DEF Inv, SaidInv, ClearedIsOk, ClearedWasDone, LoadedIsThere
<1>. QED  BY <1>2, <1>3, <1>4 DEF SaidInv

----------------------------------------------------------------------------
(* A step that changes nothing changes nothing of it.                         *)
LEMMA Unmoved == ASSUME Inv, UNCHANGED vars PROVE SaidInv'
<1>1. /\ UNCHANGED <<files, config, gw, cmd, at, read, connected, cleared, shell>>
      /\ UNCHANGED <<crossed, overlapped>>
  BY DEF vars, file, client, history
<1>2. OneWindow' /\ ReadIsFresh'
  BY <1>1 DEF Inv, SaidInv, OneWindow, InWindow, ReadIsFresh
<1>3. WrittenIsThere' /\ LoadedIsThere'
  BY <1>1 DEF Inv, SaidInv, WrittenIsThere, LoadedIsThere, HasWritten, HasLoaded
<1>4. ClearedIsOk' /\ ClearedWasDone'
  BY <1>1 DEF Inv, SaidInv, ClearedIsOk, ClearedWasDone
<1>. QED  BY <1>2, <1>3, <1>4 DEF SaidInv

(* The inductive invariant of the config file and its writers.                *)
THEOREM Invariance == Spec => []Inv
<1>1. Init => Inv
  BY InitFile, InitSaid DEF Inv
<1>2. Inv /\ [Next]_vars => Inv'
  <2>. SUFFICES ASSUME Inv, [Next]_vars PROVE Inv'
    OBVIOUS
  <2>1. FileInv'
    BY NextFile DEF Inv
  <2>2. ASSUME NEW w \in Writers PROVE Read(w) => SaidInv'
    BY ReadSaid
  <2>3. ASSUME NEW w \in Writers PROVE ClientStep(w) \/ Lose(w) \/ Stop(w) => SaidInv'
    BY ClientSaid
  <2>4. ASSUME NEW w \in Writers PROVE ShellStep(w) => SaidInv'
    BY OpenSaid, FillSaid, MoveSaid, ChownSaid, RunSaid DEF ShellStep
  <2>5. UNCHANGED vars => SaidInv'
    BY Unmoved
  <2>6. SaidInv'
    BY <2>2, <2>3, <2>4, <2>5, GatewaySaid DEF Next
  <2>. QED  BY <2>1, <2>6 DEF Inv
<1>. QED  BY <1>1, <1>2, PTL DEF Spec

(* Every variable keeps its type.                                             *)
THEOREM TypeCorrect == Spec => []TypeOK
<1>1. Inv => TypeOK
  BY DEF Inv, FileInv
<1>. QED  BY <1>1, Invariance, PTL

(* Unless two write commands overlapped, openclaw.json and what the gateway   *)
(* loaded are whole and valid, wherever runs are stopped, disconnected or     *)
(* fail.                                                                      *)
THEOREM FileIsWhole == Spec => []WholeConfig
<1>1. Inv => WholeConfig
  BY DEF Inv, FileInv
<1>. QED  BY <1>1, Invariance, PTL

(* Unless the windows of two runs crossed, what a run said it wrote stays.    *)
THEOREM DoneStays == Spec => []DoneIsKept
<1>1. Inv => DoneIsKept
  BY DEF Inv, SaidInv, WrittenIsThere, HasWritten, DoneIsKept, SaysWritten
<1>. QED  BY <1>1, Invariance, PTL

(* And what a run said it applied is what the gateway runs.                   *)
THEOREM SaidIsApplied == Spec => []AppliedWhenSaid
<1>1. Inv => AppliedWhenSaid
  BY DEF Inv, SaidInv, LoadedIsThere, HasLoaded, AppliedWhenSaid
<1>. QED  BY <1>1, Invariance, PTL

(* And a request of the host agent is cleared only when it was carried out.   *)
THEOREM ClearedIsDone == Spec => []ClearedWasDone
<1>1. Inv => ClearedWasDone
  BY DEF Inv, SaidInv
<1>. QED  BY <1>1, Invariance, PTL
=============================================================================
