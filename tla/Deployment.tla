----------------------------- MODULE Deployment -----------------------------
(***************************************************************************)
(* The blue-green deployment (src/scripts/deploy.sh): two colours of the   *)
(* server, a file that names the active one, and an nginx that goes by the *)
(* file it loaded last.                                                    *)
(*                                                                         *)
(* One script runs at a time (the workflow's concurrency group), each step *)
(* being one command; it may stop at any of them, by set -e or when its    *)
(* connection drops.  The containers of a colour are modelled as one,      *)
(* which is healthy when all replicas are, and stays so until the script   *)
(* replaces or removes it.  nginx may be restarted at any time, and then   *)
(* loads the file; docker is modelled from how the script uses it.         *)
(***************************************************************************)
CONSTANT None   \* no colour: nginx does not run

Colours == {"blue", "green"}

DeploymentAssumption == None \notin Colours

Other(colour) == CHOOSE x \in Colours : x # colour

VARIABLES
    file,           \* the colour in nginx/active/upstream.conf
    loaded,         \* the colour nginx sends requests to
    container,      \* the containers of each colour
    script,         \* where the script is, and what it took for CURRENT
    settled         \* history: the last script that got through left all in order

vars == <<file, loaded, container, script, settled>>

Steps == {"idle", "bootUp", "bootWait", "bootSmoke",
          "up", "wait", "cancel", "switch", "reload", "smoke",
          "rollback", "rollbackReload", "rollbackRemove", "removeCurrent"}

TypeOK ==
    /\ file \in Colours
    /\ loaded \in Colours \cup {None}
    /\ container \in [Colours -> {"absent", "starting", "healthy", "unhealthy"}]
    /\ script \in [pc : Steps, current : Colours]
    /\ settled \in BOOLEAN

(* The workflow has made the file before the first deployment. *)
Init ==
    /\ file = "blue"
    /\ loaded = None
    /\ container = [x \in Colours |-> "absent"]
    /\ script = [pc |-> "idle", current |-> "blue"]
    /\ settled = FALSE

current == script.current
next == Other(current)

At(pc) == script.pc = pc
Goto(pc) == script' = [script EXCEPT !.pc = pc]

(* docker compose up -d starts what is not there, or has another image. *)
Up(colour) ==
    \/ container' = [container EXCEPT ![colour] = "starting"]
    \/ container[colour] # "absent" /\ UNCHANGED container

(* docker compose rm -sf ... || true *)
Remove(colour) ==
    container' = [container EXCEPT ![colour] = "absent"] \/ UNCHANGED container

-----------------------------------------------------------------------------
(* 0) The first deployment *)

BeginBoot ==
    /\ At("idle") /\ loaded = None
    /\ file' = "blue"
    /\ script' = [pc |-> "bootUp", current |-> "blue"]
    /\ UNCHANGED <<loaded, container, settled>>

BootUp ==
    /\ At("bootUp")
    /\ Up("blue")
    /\ loaded' = file
    /\ Goto("bootWait")
    /\ UNCHANGED <<file, settled>>

BootWait ==
    /\ At("bootWait")
    /\ container["blue"] = "healthy"
    /\ Goto("bootSmoke")
    /\ UNCHANGED <<file, loaded, container, settled>>

BootSmoke ==
    /\ At("bootSmoke")
    /\ Goto("idle")
    /\ settled' = TRUE
    /\ UNCHANGED <<file, loaded, container>>

-----------------------------------------------------------------------------
(* 1) CURRENT is what the file says *)
Begin ==
    /\ At("idle") /\ loaded # None
    /\ script' = [pc |-> "up", current |-> file]
    /\ UNCHANGED <<file, loaded, container, settled>>

(* 2) *)
UpNext ==
    /\ At("up")
    /\ Up(next)
    /\ Goto("wait")
    /\ UNCHANGED <<file, loaded, settled>>

(* 3) before the switch *)
WaitForHealth ==
    /\ At("wait")
    /\ Goto(IF container[next] = "healthy" THEN "switch" ELSE "cancel")
    /\ UNCHANGED <<file, loaded, container, settled>>

Cancel ==
    /\ At("cancel")
    /\ Remove(next)
    /\ Goto("idle")
    /\ UNCHANGED <<file, loaded, settled>>

(* 4) *)
Switch ==
    /\ At("switch")
    /\ file' = next
    /\ Goto("reload")
    /\ UNCHANGED <<loaded, container, settled>>

(* 5) *)
Reload ==
    /\ At("reload")
    /\ loaded' = file
    /\ Goto("smoke")
    /\ UNCHANGED <<file, container, settled>>

(* 6) a request that fails for whatever reason makes it go back *)
SmokeTest ==
    /\ At("smoke")
    /\ \/ container[loaded] = "healthy" /\ Goto("removeCurrent")
       \/ Goto("rollback")
    /\ UNCHANGED <<file, loaded, container, settled>>

(* Mutant: NEXT is removed while nginx still sends requests to it. *)
RollbackInHaste ==
    /\ At("rollback")
    /\ file' = current
    /\ Goto("rollbackRemove")
    /\ UNCHANGED <<loaded, container, settled>>

Rollback ==
    /\ At("rollback")
    /\ file' = current
    /\ Goto("rollbackReload")
    /\ UNCHANGED <<loaded, container, settled>>

RollbackReload ==
    /\ At("rollbackReload")
    /\ loaded' = file
    /\ Goto("rollbackRemove")
    /\ UNCHANGED <<file, container, settled>>

RollbackRemove ==
    /\ At("rollbackRemove")
    /\ Remove(next)
    /\ Goto("idle")
    /\ UNCHANGED <<file, loaded, settled>>

(* 7) *)
RemoveCurrent ==
    /\ At("removeCurrent")
    /\ Remove(current)
    /\ Goto("idle")
    /\ settled' = TRUE
    /\ UNCHANGED <<file, loaded>>

(* The script stops before its next command, because one failed or because  *)
(* its connection dropped.  Between the switch of the file and the reload,  *)
(* it leaves a file that names another colour than nginx has loaded.        *)
Stop ==
    /\ ~At("idle")
    /\ Goto("idle")
    /\ settled' = (settled /\ file = loaded)
    /\ UNCHANGED <<file, loaded, container>>

-----------------------------------------------------------------------------
(* What the containers do meanwhile *)
GetReady(colour) ==
    /\ container[colour] = "starting"
    /\ \E health \in {"healthy", "unhealthy"} :
          container' = [container EXCEPT ![colour] = health]
    /\ UNCHANGED <<file, loaded, script, settled>>

RestartNginx ==
    /\ loaded # None
    /\ loaded' = file
    /\ UNCHANGED <<file, container, script, settled>>

Boot == BeginBoot \/ BootUp \/ BootWait \/ BootSmoke

Deploy ==
    \/ Begin \/ UpNext \/ WaitForHealth \/ Cancel \/ Switch \/ Reload \/ SmokeTest
    \/ Rollback \/ RollbackReload \/ RollbackRemove \/ RemoveCurrent

Next ==
    \/ Boot \/ Deploy \/ Stop
    \/ \E colour \in Colours : GetReady(colour)
    \/ RestartNginx

Spec == Init /\ [][Next]_vars

-----------------------------------------------------------------------------
(* Requests go to healthy containers during every later deployment, be it   *)
(* finished, cancelled, rolled back or stopped (deploy.sh:9, :13), and also *)
(* if nginx restarts at any moment; except after a script was stopped       *)
(* between the file and the reload, when the next one takes the colour that *)
(* serves for the one to replace (deploy.sh:106-110, :134-138), until it    *)
(* has got through.                                                         *)
ServiceGoesOn ==
    settled => loaded # None /\ container[loaded] = "healthy"
=============================================================================
