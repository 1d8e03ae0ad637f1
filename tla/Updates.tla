------------------------------- MODULE Updates -------------------------------
(***************************************************************************)
(* Software updates: the settings row that Super Admins and the host       *)
(* updater share (apps/updates), and scripts/update.sh, which cron, an     *)
(* operator or both may run, may be killed at any step, and keeps what it  *)
(* knows in a lock directory, a version marker and the running containers. *)
(***************************************************************************)
EXTENDS Integers

CONSTANTS
    Updaters,    \* processes that run scripts/update.sh
    MaxReleases, \* bound: releases that get published
    NoForm       \* no settings PATCH is under way

ASSUME UpdatesAssumption ==
    MaxReleases \in Nat \ {0} /\ Updaters \cap {"free", "dead"} = {}

VARIABLES
    settings,  \* the PlatformUpdateSettings row
    form,      \* the status a settings PATCH has read and will save
    latest,    \* the newest published release
    lock_pid,  \* whose pid .spaceworks-update.lock holds; it may be dead
    marker,    \* .spaceworks-version
    running,   \* the release of the application containers
    updater,   \* what each updater does
    astray     \* history: what no later step makes up for

updateVars == <<settings, form, latest, lock_pid, marker, running, updater, astray>>

Untracked == 0  \* no marker, and what was installed without one
Mixed == -1     \* containers of several releases, or stopped ones
Releases == Untracked..MaxReleases

UpdateStatuses == {"idle", "queued", "running", "failed"}
Rested == [step |-> "off", version |-> Untracked, previous |-> Untracked]

\* From its lock to its cleanup trap an updater works; from `up -d` to the
\* marker, or to the end of the rollback, it replaces containers.
Outside == {"off", "stale", "cleared"}
Replacing == {"deployed", "ready", "failed"}
Steps == Outside \cup Replacing
         \cup {"locked", "queried", "claimed", "marked", "reporting", "leaving"}

Working == {u \in Updaters : updater[u].step \notin Outside}

UpdatesTypeOK ==
    /\ settings \in [status : UpdateStatuses, auto : BOOLEAN]
    /\ form \in UpdateStatuses \cup {NoForm}
    /\ latest \in 1..MaxReleases
    /\ lock_pid \in Updaters \cup {"free", "dead"}
    /\ marker \in Releases
    /\ running \in Releases \cup {Mixed}
    /\ updater \in [Updaters -> [step : Steps, version : Releases,
                             previous : Releases]]
    /\ astray \subseteq {"overlap", "containers"}

UpdatesInit ==
    /\ settings = [status |-> "idle", auto |-> FALSE]
    /\ form = NoForm
    /\ latest = 1
    /\ lock_pid = "free"
    /\ marker = Untracked /\ running = Untracked
    /\ updater = [u \in Updaters |-> Rested]
    /\ astray = {}

-----------------------------------------------------------------------------
publish_release ==
    /\ latest < MaxReleases
    /\ latest' = latest + 1
    /\ UNCHANGED <<settings, form, lock_pid, marker, running, updater, astray>>

HostUnchanged == UNCHANGED <<latest, lock_pid, marker, running, updater, astray>>

\* "Update now"
queue_update ==
    /\ settings.status # "running"
    /\ settings' = [settings EXCEPT !.status = "queued"]
    /\ HostUnchanged /\ UNCHANGED form

\* update_control set-auto
set_auto(on) ==
    /\ settings' = [settings EXCEPT !.auto = on]
    /\ HostUnchanged /\ UNCHANGED form

\* The settings PATCH reads the row without a lock and saves all of it.
get_object ==
    /\ form = NoForm
    /\ form' = settings.status
    /\ HostUnchanged /\ UNCHANGED settings

perform_update(on) ==
    /\ form # NoForm
    /\ settings' = [status |-> form, auto |-> on]
    /\ form' = NoForm
    /\ HostUnchanged

-----------------------------------------------------------------------------
Doing(u, step) == updater[u].step = step
GoTo(u, step) == updater' = [updater EXCEPT ![u].step = step]
Quit(u) == updater' = [updater EXCEPT ![u] = Rested]
Leaving(u) == updater' = [updater EXCEPT ![u] = [Rested EXCEPT !.step = "leaving"]]

\* mkdir; a process that finds the pid of a live updater skips.  The second it
\* sleeps before it looks is taken to be enough for the owner to write its pid.
run_script(u) ==
    /\ Doing(u, "off")
    /\ \/ /\ lock_pid = "free"
          /\ lock_pid' = u
          /\ GoTo(u, "locked")
       \/ /\ lock_pid = "dead"
          /\ GoTo(u, "stale")
          /\ UNCHANGED lock_pid
    /\ UNCHANGED <<settings, form, latest, marker, running, astray>>

\* rm and rmdir remove whatever lock is there by now; without one the process
\* dies, before its cleanup trap is set.
clear_lock(u) ==
    /\ Doing(u, "stale")
    /\ IF lock_pid = "free" THEN Quit(u) ELSE GoTo(u, "cleared")
    /\ lock_pid' = "free"
    /\ astray' = IF lock_pid \in Updaters THEN astray \cup {"overlap"} ELSE astray
    /\ UNCHANGED <<settings, form, latest, marker, running>>

mkdir(u) ==
    /\ Doing(u, "cleared")
    /\ IF lock_pid = "free" THEN lock_pid' = u /\ GoTo(u, "locked")
                        ELSE Quit(u) /\ UNCHANGED lock_pid
    /\ UNCHANGED <<settings, form, latest, marker, running, astray>>

\* The cleanup trap removes the lock, whoever holds it.
leave(u) ==
    /\ Doing(u, "leaving")
    /\ lock_pid' = "free" /\ Quit(u)
    /\ UNCHANGED <<settings, form, latest, marker, running, astray>>

\* Nothing is claimed yet: GitHub or the backend does not answer.
give_up(u) ==
    /\ updater[u].step \in {"locked", "queried"}
    /\ Leaving(u)
    /\ UNCHANGED <<settings, form, latest, lock_pid, marker, running, astray>>

query_release(u) ==
    /\ Doing(u, "locked")
    /\ updater' = [updater EXCEPT ![u].step = "queried", ![u].version = latest,
                          ![u].previous = marker]
    /\ UNCHANGED <<settings, form, latest, lock_pid, marker, running, astray>>

\* should_update
Wanted(u, force) ==
    /\ updater[u].version # updater[u].previous
    /\ force \/ settings.auto \/ settings.status = "queued"

\* The answer of an exec that committed may still be lost.
claim_update(u, force) ==
    /\ Doing(u, "queried")
    /\ settings' =
          [settings EXCEPT !.status =
              IF Wanted(u, force) THEN "running"
              ELSE IF updater[u].version = updater[u].previous THEN "idle" ELSE @]
    /\ \/ Wanted(u, force) /\ GoTo(u, "claimed")
       \/ Leaving(u)
    /\ UNCHANGED <<form, latest, lock_pid, marker, running, astray>>

\* The backup and the pull replace nothing when they fail; up -d runs the
\* migrations, replaces the containers and may stop anywhere.
deploy(u) ==
    /\ Doing(u, "claimed")
    /\ \/ GoTo(u, "reporting") /\ UNCHANGED running
       \/ GoTo(u, "deployed") /\ running' = updater[u].version
       \/ GoTo(u, "failed") /\ running' \in {running, Mixed, updater[u].version}
    /\ UNCHANGED <<settings, form, latest, lock_pid, marker, astray>>

wait_for_backend(u) ==
    /\ Doing(u, "deployed")
    /\ GoTo(u, "ready") \/ GoTo(u, "failed")
    /\ UNCHANGED <<settings, form, latest, lock_pid, marker, running, astray>>

mark(u) ==
    /\ Doing(u, "ready")
    /\ marker' = updater[u].version
    /\ GoTo(u, "marked")
    /\ UNCHANGED <<settings, form, latest, lock_pid, running, astray>>

\* When the exec fails, committed or not, the containers are rolled back
\* and the marker is not.
complete_update(u) ==
    /\ Doing(u, "marked")
    /\ \/ /\ settings' = [settings EXCEPT !.status = "idle"]
          /\ Leaving(u)
          /\ astray' = astray \ {"containers"}
       \/ /\ settings' \in {settings, [settings EXCEPT !.status = "idle"]}
          /\ GoTo(u, "failed")
          /\ astray' = astray \cup {"containers"}
    /\ UNCHANGED <<form, latest, lock_pid, marker, running>>

\* Fault: the cleanup trap only reports the failure.
NotRolledBack(u, result) == running' = running

\* The rollback of the cleanup trap, for which an untracked installation has
\* no release.
RolledBack(u, result) ==
    \/ /\ result = "healthy" /\ updater[u].previous # Untracked
       /\ running' = updater[u].previous
    \/ /\ result = "stranded"
       /\ IF updater[u].previous = Untracked THEN UNCHANGED running
          ELSE running' \in {running, Mixed, updater[u].previous}

roll_back_containers(u, result) ==
    /\ Doing(u, "failed")
    /\ RolledBack(u, result)
    /\ GoTo(u, "reporting")
    /\ astray' = IF result = "stranded" THEN astray \cup {"containers"} ELSE astray
    /\ UNCHANGED <<settings, form, latest, lock_pid, marker>>

\* The trap ignores a failure of the report.
fail_update(u) ==
    /\ Doing(u, "reporting")
    /\ settings' \in {settings, [settings EXCEPT !.status = "failed"]}
    /\ Leaving(u)
    /\ UNCHANGED <<form, latest, lock_pid, marker, running, astray>>

\* Killed, or the host restarts: no trap runs and the lock stays.
kill(u) ==
    /\ ~Doing(u, "off")
    /\ lock_pid' = IF lock_pid = u THEN "dead" ELSE lock_pid
    /\ Quit(u)
    /\ astray' = IF updater[u].step \in Replacing THEN astray \cup {"containers"}
                 ELSE astray
    /\ UNCHANGED <<settings, form, latest, marker, running>>

UpdatesNext ==
    \/ publish_release \/ queue_update \/ get_object
    \/ \E on \in BOOLEAN : set_auto(on) \/ perform_update(on)
    \/ \E u \in Updaters :
          \/ run_script(u) \/ clear_lock(u) \/ mkdir(u) \/ leave(u)
          \/ give_up(u) \/ query_release(u)
          \/ \E force \in BOOLEAN : claim_update(u, force)
          \/ deploy(u) \/ wait_for_backend(u)
          \/ mark(u) \/ complete_update(u) \/ fail_update(u) \/ kill(u)
          \/ \E result \in {"healthy", "stranded"} : roll_back_containers(u, result)

UpdatesSpec == UpdatesInit /\ [][UpdatesNext]_updateVars

-----------------------------------------------------------------------------
\* An updater that works holds the lock, so no two do, and while none replaces
\* containers the marker names the release they run: except after two updaters
\* found one dead lock and the second removed the first one's, or until the next
\* complete update after a rollback that failed or had no release to go back to,
\* a kill between replacement and marker, or a completion that failed behind
\* the marker.
MarkerIsRunning ==
    "overlap" \notin astray =>
        /\ \A u \in Working : lock_pid = u
        /\ marker = running \/ "containers" \in astray
           \/ \E u \in Updaters : updater[u].step \in Replacing
=============================================================================
