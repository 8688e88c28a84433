----------------------------- MODULE SetupChains ------------------------------
(* What the Setup library promises: every Setup is a chain of revisions that *)
(* only grows at its end, by one whole revision at a time.  A revision that  *)
(* was published never changes, and none is missing in between.              *)
EXTENDS Sequences

CONSTANTS
    Setups,     \* identities of Setups, in use or not
    Items,      \* what a revision can contain
    InitChains  \* the library as it is found

VARIABLE chains  \* chains[s]: the revisions of s, the oldest first

Longer(chain) == {Append(chain, items) : items \in SUBSET Items}

\* One revision at the end of s.
Grow(s) ==
    /\ DOMAIN chains' = Setups
    /\ \A t \in Setups \ {s} : chains'[t] = chains[t]
    /\ chains'[s] \in Longer(chains[s])

ChainsInit == chains = InitChains

ChainsNext == \E s \in Setups : Grow(s)

ChainsSpec == ChainsInit /\ [][ChainsNext]_chains
===============================================================================
