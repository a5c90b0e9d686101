------------------------------ MODULE StartMenu ------------------------------
(***************************************************************************)
(* What the client of the application list promises to the user of the     *)
(* Start Menu, in terms of which links are there: without the files they   *)
(* are stored in, the spelling of their names, the icons, or what the      *)
(* plugin remembers of an app.  Module AppListClient implements it.        *)
(***************************************************************************)

CONSTANTS
    Providers, Names,   \* a link is at a provider's name
    MayMiss,            \* a link that should be written may be missing
    MayStay             \* a link that should go may stay: its file is in use

VARIABLES
    menu,      \* the links that are there
    open,      \* a session with the distribution is open
    round,     \* the session's sync round: the links it has kept and will take
    removal    \* the removal of a provider by another process: what it will take

vars == <<menu, open, round, removal>>

Links == Providers \X Names

Below(provider) == {l \in menu : l[1] = provider}

NoRound         == [on |-> FALSE, stale |-> {}, kept |-> {}]
Round(provider) == [on |-> TRUE, stale |-> Below(provider), kept |-> {}]
NoRemoval       == [on |-> FALSE, stale |-> {}]

Init == menu = {} /\ open = FALSE /\ round = NoRound /\ removal = NoRemoval

\* What is left of these links when the stale ones are taken.
Taken(links, stale, rest) ==
    /\ links \ stale \subseteq rest
    /\ rest \subseteq links
    /\ ~MayStay => rest = links \ stale

\* An app is told of: it may begin a round over its provider's links, count as
\* reported in it, and end it.
Tell(link, begins, reports, ends) ==
    LET begun == IF begins THEN Round(link[1]) ELSE round
        left  == IF ~reports THEN begun
                 ELSE [begun EXCEPT !.stale = @ \ {link}, !.kept = @ \cup {link}]
    IN  /\ open
        /\ begins => ~round.on
        /\ reports \/ ends => begun.on
        /\ \E written \in {menu \cup {link}} \cup (IF MayMiss THEN {menu} ELSE {}) :
              IF ends THEN Taken(written, left.stale, menu') /\ round' = NoRound
                      ELSE menu' = written /\ round' = left
        /\ UNCHANGED <<open, removal>>

\* An app is told of in vain, but a round that it begins has begun.
Begin(provider) ==
    /\ open
    /\ ~round.on
    /\ round' = Round(provider)
    /\ UNCHANGED <<menu, open, removal>>

Withdraw(link) ==
    /\ open
    /\ Taken(menu, {link}, menu')
    /\ UNCHANGED <<open, round, removal>>

Enter ==
    /\ ~open
    /\ open' = TRUE
    /\ UNCHANGED <<menu, round, removal>>

\* The session ends; at its worst in the middle of taking what is stale.
Leave ==
    /\ open
    /\ menu \ round.stale \subseteq menu'
    /\ menu' \subseteq menu
    /\ open' = FALSE
    /\ round' = NoRound
    /\ UNCHANGED removal

Remove(provider) ==
    /\ ~removal.on
    /\ removal' = [on |-> TRUE, stale |-> Below(provider)]
    /\ UNCHANGED <<menu, open, round>>

\* A removal takes what was there when it began, little by little.
Removing ==
    /\ removal.on
    /\ \E links \in SUBSET removal.stale :
        /\ Taken(menu, links, menu')
        /\ removal' = [on |-> TRUE, stale |-> removal.stale \ links]
    /\ UNCHANGED <<open, round>>

Removed ==
    /\ removal.on /\ removal.stale = {}
    /\ removal' = NoRemoval
    /\ UNCHANGED <<menu, open, round>>

Next ==
    \/ \E link \in Links, begins, reports, ends \in BOOLEAN :
            Tell(link, begins, reports, ends)
    \/ \E provider \in Providers : Begin(provider) \/ Remove(provider)
    \/ \E link \in Links : Withdraw(link)
    \/ Enter \/ Leave \/ Removing \/ Removed

Spec == Init /\ [][Next]_vars
=============================================================================
