------------------------------- MODULE ValueFeed -------------------------------
(***************************************************************************)
(* What the dependency resolution promises to the reader of an interface   *)
(* that one node provides: published numbers reach a consumer in rising    *)
(* order; a value may be lost on the way, but only while no change of it   *)
(* has been announced; and an announcement names the value the consumer    *)
(* holds, once.  Steps are batches: one save serves several topics.        *)
(***************************************************************************)
EXTENDS Naturals

CONSTANTS Consumers, Topics

VARIABLES published,  \* per topic: how often its value was published
          held,       \* per consumer and topic: the number it holds, 0 if none
          told        \* per consumer and topic: the numbers announced to it

feedVars == <<published, held, told>>

FeedInit ==
  /\ published = [k \in Topics |-> 0]
  /\ held = [n \in Consumers |-> [k \in Topics |-> 0]]
  /\ told = [n \in Consumers |-> [k \in Topics |-> {}]]

PublishNext ==
  /\ \E k \in Topics : published' = [published EXCEPT ![k] = @ + 1]
  /\ UNCHANGED <<held, told>>

\* Each number held stays, rises to a published one, or is lost unannounced.
HandOut ==
  /\ UNCHANGED <<published, told>>
  /\ held' \in [Consumers -> [Topics -> Nat]]
  /\ \A n \in Consumers, k \in Topics :
       \/ held'[n][k] = held[n][k]
       \/ held[n][k] < held'[n][k] /\ held'[n][k] <= published[k]
       \/ held'[n][k] = 0 /\ told[n][k] = {}

\* Some of the numbers held, each above all that was announced before.
Announce ==
  /\ \E A \in SUBSET (Consumers \X Topics) :
       /\ \A n \in Consumers, k \in Topics :
            <<n, k>> \in A => \A v \in told[n][k] \union {0} : v < held[n][k]
       /\ told' = [n \in Consumers |-> [k \in Topics |->
                     told[n][k] \union (IF <<n, k>> \in A THEN {held[n][k]} ELSE {})]]
  /\ UNCHANGED <<published, held>>

FeedNext == HandOut \/ PublishNext \/ Announce

FeedSpec == FeedInit /\ [][FeedNext]_feedVars
===============================================================================
