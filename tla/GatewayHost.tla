---------------------------- MODULE GatewayHost ----------------------------
(* The gateway container on one host, as every flow of clawops sees it: a     *)
(* container called `openclaw` that docker or systemd supervises, replaced    *)
(* by the one shell command gatewayRunCommand builds.                         *)
(*                                                                            *)
(* A container is a record [st, run].  `run` is what it was created from; the *)
(* flows choose what that is (a state directory, an image).  The module holds *)
(* no variable, so that Restore, Upgrade and Migrate share it.                *)
EXTENDS Integers

CONSTANT Nothing      \* `run` of a container that does not exist

Supervisors == {"docker", "systemd"}

(* absent      no such container                                              *)
(* running     its process is up (whether the gateway ANSWERS is another      *)
(*             question: see the probes of the flows)                         *)
(* restarting  its process has exited and the supervisor will start it again  *)
(* stopped     it exists, is down, and nothing will start it                  *)
Statuses == {"absent", "running", "restarting", "stopped"}

Containers(Run) == [st : Statuses, run : Run \union {Nothing}]

Absent        == [st |-> "absent", run |-> Nothing]
Running(r)    == [st |-> "running", run |-> r]
Restarting(r) == [st |-> "restarting", run |-> r]
Stopped(g)    == IF g = Absent THEN Absent ELSE [g EXCEPT !.st = "stopped"]

----------------------------------------------------------------------------
(* gatewayRunCommand.  When it exits 0 there is a new container, Running(r);  *)
(* `systemctl restart` says so too of one that exits at once, which is then a *)
(* crash like any other.                                                      *)
(* When it fails: under docker, `stop` and `rm` ignore their own failures, so *)
(* a docker that refuses all three leaves the old container, and a `docker    *)
(* run` that fails leaves none, or one that was created and never started.    *)
RunFails(sup, g, r) ==
  {g} \union (IF sup = "systemd" THEN {Restarting(r)}
                                 ELSE {Absent, Stopped(Running(r))})

(* The same command when the connection goes while it runs: `a && b && c`     *)
(* stops after any of its steps, the last one included.                       *)
RunCutShort(sup, g, r) == {g, Stopped(g), Running(r)} \union RunFails(sup, g, r)

(* GATEWAY_STOP_COMMAND.  Through the unit on a systemd host, where the       *)
(* container was run with --rm and so goes with it.                           *)
AfterStop(sup, g) == IF sup = "systemd" THEN Absent ELSE Stopped(g)

(* Whether `docker inspect openclaw` finds an image to run again.  Between    *)
(* two attempts of a systemd unit there may be no container to inspect.       *)
InspectFinds(sup, g) ==
  CASE g = Absent -> {FALSE}
    [] g # Absent /\ g.st = "restarting" /\ sup = "systemd" -> BOOLEAN
    [] OTHER -> {TRUE}
=============================================================================
