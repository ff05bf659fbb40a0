------------------------------- MODULE Cgroup -------------------------------
(***************************************************************************)
(* cgroup v2 delegation (internal/sandbox/cgroup.go): once per process,    *)
(* the nsjail backend picks a cgroup, moves itself into a leaf below it    *)
(* and lets the controllers through to the leaves.  If any of this fails   *)
(* nothing is undone: the jails fall back to rlimit_as.                    *)
(*                                                                         *)
(* The kernel is external: a cgroup that holds a process cannot pass       *)
(* controllers on, which is why the daemon has to leave it first.          *)
(***************************************************************************)
CONSTANTS
    Cgroups,    \* cgroups below /sys/fs/cgroup
    Own,        \* the one the daemon is started in
    NoCgroup    \* the empty path

ASSUME CgroupAssumption == Own \in Cgroups /\ NoCgroup \notin Cgroups

VARIABLES
    host,       \* [delegated, crowded]: cgroups with the controllers, and
                \* cgroups with processes other than the daemon
    once,       \* the next step of setupDelegatedCgroup
    target,     \* its local mount
    seat,       \* [cgroup, leaf]: where the daemon is, in the leaf or above
    subtree,    \* cgroups that pass the controllers on
    mount,      \* cgroupCache.mount
    fault       \* reading or writing a file failed

CgroupVars == <<host, once, target, seat, subtree, mount, fault>>

Steps == {"pick", "controllers", "leaf", "enable", "done"}

CgroupInit ==
    /\ host \in [delegated : SUBSET Cgroups, crowded : SUBSET Cgroups]
    /\ once = "pick"
    /\ target = NoCgroup
    /\ seat = [cgroup |-> Own, leaf |-> FALSE]
    /\ subtree = {}
    /\ mount = NoCgroup
    /\ fault = FALSE

\* cgroupState{reason: err}
Unavailable == once' = "done" /\ UNCHANGED <<target, seat, subtree, mount>>

FileError == fault' = TRUE /\ Unavailable /\ UNCHANGED host

\* The override, or the 0:: entry of /proc/self/cgroup (detectOwnCgroup).
Pick(override) ==
    /\ once = "pick"
    /\ \/ /\ target' = IF override = NoCgroup THEN Own ELSE override
          /\ once' = "controllers"
          /\ UNCHANGED <<host, seat, subtree, mount, fault>>
       \/ override = NoCgroup /\ FileError

\* cgroupControllersAvailable
CheckControllers ==
    /\ once = "controllers"
    /\ \/ /\ target \in host.delegated
          /\ once' = "leaf"
          /\ UNCHANGED <<host, target, seat, subtree, mount, fault>>
       \/ target \notin host.delegated /\ Unavailable /\ UNCHANGED <<host, fault>>
       \/ FileError

\* seatSelfInLeaf
SeatSelfInLeaf ==
    /\ once = "leaf"
    /\ \/ /\ seat' = [cgroup |-> target, leaf |-> TRUE]
          /\ once' = "enable"
          /\ UNCHANGED <<host, target, subtree, mount, fault>>
       \/ FileError

\* What the kernel says to a write of cgroup.subtree_control.
MayPassOn(c) == c \notin host.crowded /\ (seat.cgroup = c => seat.leaf)

\* A mistake: an error of enableSubtreeControl is only logged.
EnableAnyway ==
    /\ once = "enable"
    /\ subtree' \in {subtree, subtree \cup {target}}
    /\ mount' = target
    /\ once' = "done"
    /\ UNCHANGED <<host, target, seat, fault>>

\* enableSubtreeControl, and the mount is known.
EnableSubtreeControl ==
    /\ once = "enable"
    /\ \/ /\ MayPassOn(target)
          /\ subtree' = subtree \cup {target}
          /\ mount' = target
          /\ once' = "done"
          /\ UNCHANGED <<host, target, seat, fault>>
       \/ ~MayPassOn(target) /\ Unavailable /\ UNCHANGED <<host, fault>>
       \/ FileError

\* delegatedCgroupMount: sync.Once, so what one call found every call returns.
CgroupNext(override) ==
    \/ Pick(override) \/ CheckControllers
    \/ SeatSelfInLeaf \/ EnableSubtreeControl

\* writeNsjailConfig lifts rlimit_as when it has a mount and counts on the
\* cgroup alone: then the cgroup really limits the jails, its controllers are
\* there and reach the leaves, and the daemon is not in the way.  And cgroup
\* limits are used whenever the host allows it: the fallback to rlimit_as has
\* a reason outside the daemon.
CgroupSound ==
    /\ mount # NoCgroup =>
         /\ mount \in host.delegated
         /\ mount \in subtree
         /\ seat = [cgroup |-> mount, leaf |-> TRUE]
    /\ once = "done" /\ mount = NoCgroup =>
         \/ fault
         \/ target \notin host.delegated
         \/ target \in host.crowded
=============================================================================
