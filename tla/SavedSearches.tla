---------------------------- MODULE SavedSearches ----------------------------
(***************************************************************************)
(* The searches a user saves in the browser: SettingsService.js keeps them  *)
(* in localStorage, which all tabs share, and names them by their position. *)
(* SavedSearchesWidget.js saves one and lets the user pick one,             *)
(* ManageSavedSearchesController.js and its template list and delete them.  *)
(* A position is taken when a list is drawn and used when a button is       *)
(* pressed.                                                                *)
(***************************************************************************)
EXTENDS Integers, Sequences, SequencesExt

CONSTANTS
  Tabs,      \* tabs open on the application
  MaxAdds    \* bound: searches saved in a behaviour

ASSUME SavedSearchesAssumption == MaxAdds \in Nat \ {0}

VARIABLES
  stored,    \* localStorage["savedSearches"]; the n-th search saved is the number n
  added,     \* how many have been saved
  screen,    \* what a tab shows
  offered,   \* the searches drawn in it when it was drawn
  last       \* the last button that took a position: what it stood at, what it got

vars == <<stored, added, screen, offered, last>>

Searches == 1..MaxAdds
None == 0

TypeOK ==
  /\ stored \in Seq(Searches)
  /\ added \in 0..MaxAdds
  /\ screen \in [Tabs -> {"home", "naming", "picker", "manage"}]
  /\ offered \in [Tabs -> Seq(Searches)]
  /\ last \in [op : {"none", "pick", "delete"}, chosen : Searches \cup {None},
               got : Searches \cup {None}]

Init ==
  /\ stored = <<>>
  /\ added = 0
  /\ screen = [t \in Tabs |-> "home"]
  /\ offered = [t \in Tabs |-> <<>>]
  /\ last = [op |-> "none", chosen |-> None, got |-> None]

\* The search at a position counted from 0, or undefined.
At(s, index) == IF index \in 0..(Len(s) - 1) THEN s[index + 1] ELSE None

Goto(t, from, to) ==
  /\ screen[t] = from
  /\ screen' = [screen EXCEPT ![t] = to]

-----------------------------------------------------------------------------
(* Saving. *)

\* The search dialog's Save, and the naming dialog's Cancel.
ShowSaveSearchModal(t) ==
  Goto(t, "home", "naming") /\ UNCHANGED <<stored, added, offered, last>>

CancelSaveSearch(t) ==
  Goto(t, "naming", "home") /\ UNCHANGED <<stored, added, offered, last>>

\* Mutant: the newest search comes first.
AddSavedSearchFirst(t) ==
  /\ Goto(t, "naming", "home")
  /\ added < MaxAdds
  /\ added' = added + 1
  /\ stored' = <<added + 1>> \o stored
  /\ UNCHANGED <<offered, last>>

\* OK, with a name: addSavedSearch.
AddSavedSearch(t) ==
  /\ Goto(t, "naming", "home")
  /\ added < MaxAdds
  /\ added' = added + 1
  /\ stored' = Append(stored, added + 1)
  /\ UNCHANGED <<offered, last>>

-----------------------------------------------------------------------------
(* Picking. *)

\* showPicker: the options are numbered as the searches are stored now.
ShowPicker(t) ==
  /\ Goto(t, "home", "picker")
  /\ offered' = [offered EXCEPT ![t] = stored]
  /\ UNCHANGED <<stored, added, last>>

CancelPicker(t) ==
  Goto(t, "picker", "home") /\ UNCHANGED <<stored, added, offered, last>>

\* Mutant: positions counted from 1.
PickOneOff(t, index) ==
  /\ Goto(t, "picker", "home")
  /\ index \in 0..(Len(offered[t]) - 1)
  /\ last' = [op |-> "pick",
              chosen |-> At(offered[t], index), got |-> At(stored, index + 1)]
  /\ UNCHANGED <<stored, added, offered>>

\* OK: getSavedSearchByIndex reads the option's position in what is stored by then.
\* Its test for a missing search asks for a position both below 0 and too high, so it
\* never objects.
Pick(t, index) ==
  /\ Goto(t, "picker", "home")
  /\ index \in 0..(Len(offered[t]) - 1)
  /\ last' = [op |-> "pick",
              chosen |-> At(offered[t], index), got |-> At(stored, index)]
  /\ UNCHANGED <<stored, added, offered>>

\* OK in a picker without options: the position is NaN, the search undefined.
PickNothing(t) ==
  /\ Goto(t, "picker", "home")
  /\ offered[t] = <<>>
  /\ last' = [op |-> "pick", chosen |-> None, got |-> None]
  /\ UNCHANGED <<stored, added, offered>>

-----------------------------------------------------------------------------
(* Managing. *)

\* getSavedSearches: groups of two, one for each row of the page.
Groups(s) ==
  [g \in 1..((Len(s) + 1) \div 2) |->
     IF 2 * g <= Len(s) THEN <<s[2 * g - 1], s[2 * g]>> ELSE <<s[2 * g - 1]>>]

\* The page is opened (from the picker: Manage) and drawn; or left for the mail list.
OpenManage(t) ==
  /\ Goto(t, "home", "manage") \/ Goto(t, "picker", "manage")
  /\ offered' = [offered EXCEPT ![t] = stored]
  /\ UNCHANGED <<stored, added, last>>

LeaveManage(t) ==
  Goto(t, "manage", "home") /\ UNCHANGED <<stored, added, offered, last>>

\* Delete at place k of row g.  The template gives every button of a row the row's
\* index (@../index), and deleteSavedSearch takes that for a position; then the page
\* is drawn again.
DeleteSavedSearch(t, g, k) ==
  /\ screen[t] = "manage"
  /\ g \in DOMAIN Groups(offered[t]) /\ k \in DOMAIN Groups(offered[t])[g]
  /\ LET index == g - 1
     IN /\ stored' = IF index < Len(stored) THEN RemoveAt(stored, index + 1) ELSE stored
        /\ last' = [op |-> "delete", chosen |-> Groups(offered[t])[g][k],
                    got |-> At(stored, index)]
  /\ offered' = [offered EXCEPT ![t] = stored']
  /\ UNCHANGED <<added, screen>>

-----------------------------------------------------------------------------
Next ==
  \E t \in Tabs :
    \/ ShowSaveSearchModal(t) \/ CancelSaveSearch(t) \/ AddSavedSearch(t)
    \/ ShowPicker(t) \/ CancelPicker(t) \/ PickNothing(t)
    \/ \E index \in 0..(MaxAdds - 1) : Pick(t, index)
    \/ OpenManage(t) \/ LeaveManage(t)
    \/ \E g \in 1..MaxAdds, k \in {1, 2} : DeleteSavedSearch(t, g, k)

Spec == Init /\ [][Next]_vars

-----------------------------------------------------------------------------
(* Properties. *)

\* Whatever tabs do, searches keep the order they were saved in, none twice: positions
\* only ever shift down.
StoredInOrder == \A i, j \in DOMAIN stored : i < j => stored[i] < stored[j]

\* The picker gives the search that was chosen, although it goes by a position taken
\* when the options were drawn: searches saved since, in any tab, do not shift it, and
\* only deletions in another tab do.
PickGivesChosen ==
  [][\A t \in Tabs :
       /\ screen[t] = "picker" /\ last' # last
       /\ screen'[t] = "home"
       /\ IsPrefix(offered[t], stored)
       => last'.got = last'.chosen]_vars
==============================================================================
