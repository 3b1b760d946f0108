---------------------------- MODULE MCExtensions ----------------------------
(***************************************************************************)
(* Instances of Extensions for TLC.                                        *)
(***************************************************************************)
EXTENDS Extensions

CONSTANTS a, b,         \* a is shipped, b is the user's
          done, complete, plan

\* The core has one command, known under two words.
MCCoreAliases == [k \in {done} |-> {complete}]

Command(n, als, override, force) ==
    [do |-> "command", name |-> n, aliases |-> als, override |-> override,
     force |-> force]
Hook  == [do |-> "hook", name |-> plan]
Raise == [do |-> "raise", name |-> plan]

\* A hook and a command; a core command replaced under its name, and under its
\* other word by a script that fails half-way; an alias that is taken.
MCScripts ==
    { <<Hook, Command(plan, {}, FALSE, FALSE)>>,
      <<Command(done, {plan}, TRUE, TRUE)>>,
      <<Command(complete, {}, TRUE, TRUE), Raise>>,
      <<Command(plan, {done}, TRUE, FALSE)>> }

=============================================================================
