------------------------------- MODULE ActorPages -------------------------------
(***************************************************************************)
(* The pages that show and replace the actor of an account. The server     *)
(* may hold the key that controls the actor; the pages let go of it only   *)
(* after the user has exported it.                                         *)
(***************************************************************************)
EXTENDS Integers, FiniteSets

CONSTANTS
  Windows,
  Own,             \* the actors that the server may create, in order
  External,        \* actors that are managed elsewhere
  NoActor,
  Unknown,         \* of a page: the actor is not loaded
  Revisits,        \* whether users go back to an earlier page of a tab
  MaxActorEvents   \* bound: what users do

ActorIds == Own \cup External
NoKey == 0

VARIABLES
  row,       \* of the server: the actor of the account, and its key or NoKey
  controls,  \* of the PLC directory: the rotation keys of an actor
  keys,      \* how many keys there were
  files,     \* exported keys that the user has
  window,    \* a tab: its page, what it loaded, and what it thinks was exported
  visited,   \* the states of the history entries of a tab with the page that replaces
  lost,      \* history: keys that the server dropped, and that the user does not have
  had,       \* history: actors that the account had
  returned,  \* history: those of them that were imported again
  actorEvents

actorVars == <<row, controls, keys, files, window, visited, lost, had, returned,
               actorEvents>>

OnHome == [page |-> "home", actor |-> Unknown, key |-> NoKey, exported |-> FALSE,
           entry |-> NoActor]

ActorsInit ==
  /\ row \in {[actor |-> 1, key |-> 1], [actor |-> NoActor, key |-> NoKey]}
  /\ controls = [a \in ActorIds |-> IF a = 1 THEN {1} ELSE IF a \in External THEN {2} ELSE {}]
  /\ keys = 2
  /\ files = {[actor |-> a, key |-> 2] : a \in External}
  /\ window = [t \in Windows |-> OnHome]
  /\ visited = [t \in Windows |-> {}]
  /\ lost = {} /\ had = {} /\ returned = {} /\ actorEvents = 0

Clicks == actorEvents < MaxActorEvents /\ actorEvents' = actorEvents + 1

\* The server lets go of the key that it holds: the user should have it.
Dropped ==
  IF row.key # NoKey /\ row.key \in controls[row.actor] /\ row \notin files
  THEN {row} ELSE {}

Loaded(t) == window[t].actor # Unknown
HasActor(t) == window[t].actor \in ActorIds
-----------------------------------------------------------------------------
MutExportedHere(t) == window[t].entry # NoActor  \* mutant: an export of any actor counts
\* "An export made on the actor page counts here too."
ExportedHere(t) == row.actor # NoActor /\ row.actor = window[t].entry

\* The page of a tab loads the actor of the account.
Load(t) ==
  /\ ~Loaded(t)
  /\ window' = [window EXCEPT ![t].actor = row.actor, ![t].key = row.key,
                        ![t].exported = window[t].page = "replace" /\ ExportedHere(t)]
  /\ UNCHANGED <<row, controls, keys, files, visited, lost, had, returned, actorEvents>>

MutSaved(confirmed) == TRUE  \* mutant: the answer to the warning is not looked at
Saved(confirmed) == confirmed

\* exportPrivateKey(): the key that the server holds for the actor of the page, if
\* the user confirms.
Export(t, confirmed) ==
  /\ Clicks /\ HasActor(t) /\ window[t].key # NoKey
  /\ confirmed => row.actor = window[t].actor /\ row.key # NoKey
  /\ files' = IF confirmed THEN files \cup {row} ELSE files
  /\ window' = [window EXCEPT ![t].exported = @ \/ Saved(confirmed)]
  /\ UNCHANGED <<row, controls, keys, visited, lost, had, returned>>

\* saveActor(): aliases and services are edited; the key stays.
Edit(t) ==
  /\ Clicks /\ HasActor(t) /\ window[t].page = "home" /\ window[t].key # NoKey
  /\ row.actor = window[t].actor /\ row.key # NoKey
  /\ window' = [window EXCEPT ![t].exported = FALSE]
  /\ UNCHANGED <<row, controls, keys, files, visited, lost, had, returned>>

\* stopManagingKey(): the server deletes its copy.
RemoveKey(t) ==
  /\ Clicks /\ HasActor(t) /\ window[t].page = "home" /\ window[t].key # NoKey
  /\ window[t].exported
  /\ row.actor = window[t].actor /\ row.key # NoKey
  /\ row' = [row EXCEPT !.key = NoKey]
  /\ lost' = lost \cup Dropped
  /\ window' = [window EXCEPT ![t].key = NoKey, ![t].exported = FALSE]
  /\ UNCHANGED <<controls, keys, files, visited, had, returned>>
-----------------------------------------------------------------------------
(* Navigation *)

\* The link to replace the actor tells the next page which actor was exported.
ToReplace(t) ==
  LET entry == IF window[t].exported THEN window[t].actor ELSE NoActor
  IN /\ Clicks /\ window[t].page = "home" /\ Loaded(t)
     /\ window[t].key = NoKey \/ window[t].exported
     /\ window' = [window EXCEPT ![t] = [OnHome EXCEPT !.page = "replace", !.entry = entry]]
     /\ visited' = [visited EXCEPT ![t] = @ \cup {entry}]
     /\ UNCHANGED <<row, controls, keys, files, lost, had, returned>>

ToHome(t) ==
  /\ Clicks /\ window[t].page = "replace"
  /\ window' = [window EXCEPT ![t] = OnHome]
  /\ UNCHANGED <<row, controls, keys, files, visited, lost, had, returned>>

\* The browser keeps the state of a history entry.
Revisit(t, entry) ==
  /\ Clicks /\ Revisits /\ entry \in visited[t]
  /\ window' = [window EXCEPT ![t] = [OnHome EXCEPT !.page = "replace", !.entry = entry]]
  /\ UNCHANGED <<row, controls, keys, files, visited, lost, had, returned>>
-----------------------------------------------------------------------------
(* The page that replaces *)

MayReplace(t) ==
  /\ window[t].page = "replace" /\ Loaded(t)
  /\ window[t].key = NoKey \/ window[t].exported

\* checkReplacement(), and what every way to replace does at the end.
Replaced(t, actor, key) ==
  /\ HasActor(t) = (row.actor # NoActor)
  /\ lost' = lost \cup Dropped
  /\ row' = [actor |-> actor, key |-> key]
  /\ had' = had \cup ({row.actor} \cap ActorIds)
  /\ window' = [window EXCEPT ![t] = OnHome]

\* A new actor; its services come from the directory, which must know the key.
CreateActor(t) ==
  LET new == CHOOSE a \in Own : controls[a] = {} /\ \A b \in 1..a - 1 : controls[b] # {}
  IN /\ Clicks /\ MayReplace(t)
     /\ \E a \in Own : controls[a] = {}
     /\ HasActor(t) /\ window[t].key # NoKey => window[t].key \in controls[window[t].actor]
     /\ controls' = [controls EXCEPT ![new] = {keys + 1}]
     /\ keys' = keys + 1
     /\ Replaced(t, new, keys + 1)
     /\ UNCHANGED <<files, visited, returned>>

\* The file of an exported key: the key is replaced by one of the server.
ImportActor(t, f) ==
  /\ Clicks /\ MayReplace(t)
  /\ ~(f.actor = window[t].actor /\ window[t].key # NoKey)
  /\ ~(f.actor = row.actor /\ row.key # NoKey)
  /\ f.key \in controls[f.actor]
  /\ controls' = [controls EXCEPT ![f.actor] = (@ \ {f.key}) \cup {keys + 1}]
  /\ keys' = keys + 1
  /\ Replaced(t, f.actor, keys + 1)
  /\ returned' = returned \cup ({f.actor} \cap (had \cup {row.actor}))
  /\ UNCHANGED <<files, visited>>

\* An actor that is managed elsewhere, and names the handle of the account.
AttachActor(t, a) ==
  /\ Clicks /\ MayReplace(t)
  /\ controls[a] # {}
  /\ Replaced(t, a, NoKey)
  /\ UNCHANGED <<controls, keys, files, visited, returned>>

ActorPagesNext ==
  \E t \in Windows :
    \/ Load(t) \/ Edit(t) \/ RemoveKey(t)
    \/ \E confirmed \in BOOLEAN : Export(t, confirmed)
    \/ ToReplace(t) \/ ToHome(t)
    \/ \E entry \in visited[t] : Revisit(t, entry)
    \/ CreateActor(t)
    \/ \E f \in files : ImportActor(t, f)
    \/ \E a \in ActorIds : AttachActor(t, a)
-----------------------------------------------------------------------------
\* "Save this key before replacing the actor. You may need it to manage the old DID
\* later": the server never drops a key that controls an actor and that the user has
\* not exported.
NoKeyIsLost == lost = {}

\* The same of every actor that the account did not have before: however often a tab
\* goes back to earlier pages, and actors are edited, replaced and given up, only the
\* key of an actor that was given up and imported again may be dropped unsaved.
NewKeysAreSaved == \A l \in lost : l.actor \in returned
=============================================================================
