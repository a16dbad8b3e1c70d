----------------------------- MODULE KillSwitch -----------------------------
(***************************************************************************)
(* KillSwitch (src/killswitch.cpp): whether a file exists, cached for      *)
(* ttl_ns.  is_engaged() reads the clock and later stats the file; time    *)
(* passes, and an operator at a shell creates and removes the file, at any *)
(* point between the two.                                                  *)
(***************************************************************************)
EXTENDS Integers

CONSTANTS
    Ttl,      \* ttl_ns_, in ticks of the clock
    MaxTime   \* bound: ticks of monotonic_ns()

ASSUME KillSwitchAssumption == Ttl \in Nat /\ MaxTime \in Nat

VARIABLES
    now,         \* monotonic_ns()
    file,        \* whether the file at path_ exists
    has_cached, cached, checked_at,   \* has_cached_, cached_, checked_at_ns_
    kpc,         \* where the caller is in is_engaged()
    asked_at,    \* is_engaged()'s local `now`
    answer,      \* what the last is_engaged() returned
    due,         \* history: from when on is_engaged() has to know about `file`
    misread      \* history: whether the stat behind `cached` failed

Grace == IF Ttl = 0 THEN 1 ELSE Ttl

cacheVars == <<has_cached, cached, checked_at>>
switchVars == <<now, file, cacheVars, kpc, asked_at, answer, due, misread>>

SwitchInit ==
    /\ now = 0
    /\ file \in BOOLEAN
    /\ has_cached = FALSE /\ cached = FALSE /\ checked_at = 0
    /\ kpc = "idle" /\ asked_at = 0 /\ answer = FALSE
    /\ due = 0
    /\ misread = FALSE

-----------------------------------------------------------------------------
(* is_engaged().                                                           *)

\* Mutant: an answer as old as the TTL allows, and one tick more.
AskSwitchLate ==
    /\ kpc \in {"idle", "answered"}
    /\ asked_at' = now
    /\ IF has_cached /\ now - checked_at <= Ttl
         THEN kpc' = "answered" /\ answer' = cached
         ELSE kpc' = "stat" /\ UNCHANGED answer
    /\ UNCHANGED <<now, file, cacheVars, due, misread>>

AskSwitch ==
    /\ kpc \in {"idle", "answered"}
    /\ asked_at' = now
    /\ IF has_cached /\ now - checked_at < Ttl
         THEN kpc' = "answered" /\ answer' = cached
         ELSE kpc' = "stat" /\ UNCHANGED answer
    /\ UNCHANGED <<now, file, cacheVars, due, misread>>

\* exists(path_, ec) && !ec: an error is taken for a missing file, for one TTL.
StatSwitch ==
    /\ kpc = "stat"
    /\ misread' \in BOOLEAN
    /\ cached' = (file /\ ~misread')
    /\ has_cached' = TRUE
    /\ checked_at' = asked_at
    /\ answer' = cached'
    /\ kpc' = "answered"
    /\ UNCHANGED <<now, file, asked_at, due>>

-----------------------------------------------------------------------------
(* engage() and release(), on the caller's own thread: both ignore a file  *)
(* operation that fails, and both invalidate the cache, so that the caller *)
(* sees its own change at once.                                            *)

Invalidate == has_cached' = FALSE /\ checked_at' = 0 /\ UNCHANGED cached

Earlier(a, b) == IF a < b THEN a ELSE b

Engage ==
    /\ kpc \in {"idle", "answered"}
    /\ file' \in {TRUE, file}
    /\ due' = IF file' = file THEN Earlier(due, now) ELSE now
    /\ Invalidate
    /\ kpc' = "idle"
    /\ UNCHANGED <<now, asked_at, answer, misread>>

Release ==
    /\ kpc \in {"idle", "answered"}
    /\ file' \in {FALSE, file}
    /\ due' = IF file' = file THEN Earlier(due, now) ELSE now
    /\ Invalidate
    /\ kpc' = "idle"
    /\ UNCHANGED <<now, asked_at, answer, misread>>

-----------------------------------------------------------------------------
(* The operator at a shell, and the clock.                                 *)

\* The operator's change has to be known Ttl later, and never in the tick in
\* which it was made: a call in that tick may come before it.
OperatorToggles ==
    /\ file' = ~file
    /\ due' = now + Grace
    /\ UNCHANGED <<now, cacheVars, kpc, asked_at, answer, misread>>

Tick ==
    /\ now < MaxTime
    /\ now' = now + 1
    /\ UNCHANGED <<file, cacheVars, kpc, asked_at, answer, due, misread>>

SwitchNext ==
    \/ AskSwitch \/ StatSwitch \/ Engage \/ Release
    \/ OperatorToggles \/ Tick

SwitchSpec == SwitchInit /\ [][SwitchNext]_switchVars

-----------------------------------------------------------------------------
(* Properties.                                                             *)

\* The variables keep their types; the clock never runs behind what was read.
SwitchTypeOK ==
    /\ now \in 0..MaxTime /\ asked_at \in 0..now /\ checked_at \in 0..now
    /\ file \in BOOLEAN /\ has_cached \in BOOLEAN /\ cached \in BOOLEAN
    /\ answer \in BOOLEAN
    /\ kpc \in {"idle", "stat", "answered"}
    /\ due \in 0..(MaxTime + Grace)
    /\ misread \in BOOLEAN

\* The TTL "bounds the delay between an operator engaging the switch and this
\* process honouring it": a call of is_engaged() made Ttl or more after the
\* operator's last change, or any time after the process's own, answers what
\* the file says, although the clock is read before the stat and the cached
\* answer may have been taken just before the change.  The one exception is an
\* answer whose own stat failed: it says that the switch is not engaged.
HonouredWithinTtl ==
    kpc = "answered" /\ due <= asked_at => answer = (file /\ ~misread)

=============================================================================
