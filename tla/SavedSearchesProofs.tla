-------------------------- MODULE SavedSearchesProofs -------------------------
(***************************************************************************)
(* Any number of tabs that save, pick and delete searches at positions of   *)
(* lists that may be stale leave the stored searches in the order they were *)
(* saved in, without doubles; and a picker gives the search it was asked     *)
(* for while what it was drawn from is still a prefix of what is stored.    *)
(***************************************************************************)
EXTENDS SavedSearches, SequenceTheorems, TLAPS

\* A sequence without its i-th element.
LEMMA Removed ==
  ASSUME NEW S, NEW s \in Seq(S), NEW i \in 1..Len(s)
  PROVE  /\ RemoveAt(s, i) \in Seq(S)
         /\ Len(RemoveAt(s, i)) = Len(s) - 1
         /\ \A k \in 1..Len(s) - 1 : RemoveAt(s, i)[k] = IF k < i THEN s[k] ELSE s[k + 1]
<1> DEFINE a == SubSeq(s, 1, i - 1)
           b == SubSeq(s, i + 1, Len(s))
<1>1. /\ a \in Seq(S) /\ Len(a) = i - 1
      /\ \A k \in 1..i - 1 : a[k] = s[k]
  OBVIOUS
<1>2. /\ b \in Seq(S) /\ Len(b) = Len(s) - i
      /\ \A k \in 1..Len(s) - i : b[k] = s[i + k]
  <2>1. \A k \in i + 1..Len(s) : s[k] \in S
    OBVIOUS
  <2>2. CASE i = Len(s)
    BY <2>2
  <2>3. CASE i < Len(s)
    BY <2>1, <2>3
  <2> QED BY <2>2, <2>3
<1>3. RemoveAt(s, i) = a \o b
  BY DEF RemoveAt
<1> HIDE DEF a, b
<1>4. /\ a \o b \in Seq(S) /\ Len(a \o b) = Len(a) + Len(b)
      /\ \A k \in 1..Len(a) + Len(b) :
           (a \o b)[k] = IF k <= Len(a) THEN a[k] ELSE b[k - Len(a)]
  BY <1>1, <1>2, ConcatProperties
<1>5. Len(a) + Len(b) = Len(s) - 1
  BY <1>1, <1>2
<1>6. ASSUME NEW k \in 1..Len(s) - 1, k < i
      PROVE  (a \o b)[k] = s[k]
  BY <1>1, <1>4, <1>5, <1>6
<1>7. ASSUME NEW k \in 1..Len(s) - 1, ~(k < i)
      PROVE  (a \o b)[k] = s[k + 1]
  <2>1. k - (i - 1) \in 1..Len(s) - i /\ i + (k - (i - 1)) = k + 1
    BY <1>7
  <2>2. (a \o b)[k] = b[k - (i - 1)]
    <3>1. k \in 1..Len(a) + Len(b) /\ ~(k <= Len(a)) /\ Len(a) = i - 1
      BY <1>1, <1>5, <1>7
    <3>2. (a \o b)[k] = b[k - Len(a)]
      BY <1>4, <3>1
    <3> QED BY <3>1, <3>2
  <2> QED BY <1>2, <2>1, <2>2
<1> QED BY <1>3, <1>4, <1>5, <1>6, <1>7

\* What has been saved has numbers up to added.
Numbered ==
  /\ added \in Nat
  /\ stored \in Seq(Nat)
  /\ \A i \in 1..Len(stored) : stored[i] <= added
  /\ \A i, j \in 1..Len(stored) : i < j => stored[i] < stored[j]

LEMMA AddKeeps ==
  ASSUME Numbered, NEW t, AddSavedSearch(t)
  PROVE  Numbered'
<1>1. /\ added + 1 \in Nat
      /\ stored' = Append(stored, added + 1) /\ added' = added + 1
  BY DEF AddSavedSearch, Numbered
<1>2. /\ stored' \in Seq(Nat) /\ Len(stored') = Len(stored) + 1
      /\ \A k \in 1..Len(stored) : stored'[k] = stored[k]
      /\ stored'[Len(stored) + 1] = added + 1
  BY <1>1 DEF Numbered
<1> QED BY <1>1, <1>2 DEF Numbered

LEMMA DeleteKeeps ==
  ASSUME Numbered, NEW t, NEW g \in Nat \ {0}, NEW k, DeleteSavedSearch(t, g, k)
  PROVE  Numbered'
<1>1. added' = added
  BY DEF DeleteSavedSearch
<1>2. CASE stored' = stored
  BY <1>1, <1>2 DEF Numbered
<1>3. CASE g \in 1..Len(stored) /\ stored' = RemoveAt(stored, g)
  <2>1. /\ stored' \in Seq(Nat) /\ Len(stored') = Len(stored) - 1
        /\ \A i \in 1..Len(stored) - 1 :
             stored'[i] = IF i < g THEN stored[i] ELSE stored[i + 1]
    <3>1. stored \in Seq(Nat)
      BY DEF Numbered
    <3>2. /\ RemoveAt(stored, g) \in Seq(Nat)
          /\ Len(RemoveAt(stored, g)) = Len(stored) - 1
          /\ \A i \in 1..Len(stored) - 1 :
               RemoveAt(stored, g)[i] = IF i < g THEN stored[i] ELSE stored[i + 1]
      BY <1>3, <3>1, Removed, Zenon
    <3> QED BY <1>3, <3>2, Zenon
  <2>2. \A i \in 1..Len(stored') : stored'[i] <= added
    <3> SUFFICES ASSUME NEW i \in 1..Len(stored') PROVE stored'[i] <= added
      OBVIOUS
    <3>1. i \in 1..Len(stored) /\ i + 1 \in 1..Len(stored) /\ i \in 1..Len(stored) - 1
      BY <2>1, <1>3 DEF Numbered
    <3> QED BY <2>1, <3>1 DEF Numbered
  <2>3. \A i, j \in 1..Len(stored') : i < j => stored'[i] < stored'[j]
    <3> SUFFICES ASSUME NEW i \in 1..Len(stored'), NEW j \in 1..Len(stored'), i < j
                 PROVE  stored'[i] < stored'[j]
      OBVIOUS
    <3>1. /\ i \in 1..Len(stored) - 1 /\ j \in 1..Len(stored) - 1
          /\ {i, i + 1, j, j + 1} \subseteq 1..Len(stored)
      BY <2>1, <1>3 DEF Numbered
    <3>2. /\ stored'[i] = IF i < g THEN stored[i] ELSE stored[i + 1]
          /\ stored'[j] = IF j < g THEN stored[j] ELSE stored[j + 1]
      BY <2>1, <3>1
    <3>3. i < j + 1 /\ i + 1 < j + 1 /\ (j < g => i < g)
      BY <1>3
    <3> QED BY <3>1, <3>2, <3>3 DEF Numbered
  <2> QED BY <1>1, <2>1, <2>2, <2>3 DEF Numbered
<1>4. g - 1 < Len(stored) => g \in 1..Len(stored)
  BY DEF Numbered
<1>5. \/ stored' = stored
      \/ g - 1 < Len(stored) /\ stored' = RemoveAt(stored, (g - 1) + 1)
  BY DEF DeleteSavedSearch
<1>6. (g - 1) + 1 = g
  OBVIOUS
<1> QED BY <1>2, <1>3, <1>4, <1>5, <1>6

LEMMA NumberedStep ==
  ASSUME Numbered, [Next]_vars
  PROVE  Numbered'
<1>1. CASE UNCHANGED <<stored, added>>
  BY <1>1 DEF Numbered
<1>2. ASSUME NEW t \in Tabs, AddSavedSearch(t) PROVE Numbered'
  BY <1>2, AddKeeps
<1>3. ASSUME NEW t \in Tabs, NEW g \in 1..MaxAdds, NEW k \in {1, 2},
             DeleteSavedSearch(t, g, k)
      PROVE  Numbered'
  BY <1>3, DeleteKeeps, SavedSearchesAssumption
<1> QED
  BY <1>1, <1>2, <1>3
     DEF Next, vars, ShowSaveSearchModal, CancelSaveSearch, ShowPicker, CancelPicker,
         PickNothing, Pick, OpenManage, LeaveManage

\* The stored searches keep the order they were saved in, none twice, whatever tabs save
\* and delete (SettingsService.js addSavedSearch and deleteSavedSearch).
THEOREM SearchesStayInOrder == Spec => []StoredInOrder
<1>1. Init => Numbered
  BY DEF Init, Numbered
<1>2. Numbered /\ [Next]_vars => Numbered'
  BY NumberedStep
<1>3. Numbered => StoredInOrder
  BY DEF Numbered, StoredInOrder
<1> QED BY <1>1, <1>2, <1>3, PTL DEF Spec

-----------------------------------------------------------------------------
(* Types. *)

\* A position is a stored search, or none.
LEMMA AtType ==
  ASSUME NEW s \in Seq(Searches), NEW index \in Nat
  PROVE  At(s, index) \in Searches \cup {None}
<1>1. CASE index \in 0..(Len(s) - 1)
  <2>1. index + 1 \in 1..Len(s)
    BY <1>1
  <2> QED BY <1>1, <2>1 DEF At
<1>2. CASE index \notin 0..(Len(s) - 1)
  BY <1>2 DEF At
<1> QED BY <1>1, <1>2

\* Place k of row g shows the search at position 2 * (g - 1) + k, counted from 1.
LEMMA GroupsShow ==
  ASSUME NEW S, NEW s \in Seq(S), NEW g \in DOMAIN Groups(s), NEW k \in DOMAIN Groups(s)[g]
  PROVE  /\ g \in Nat \ {0} /\ k \in {1, 2}
         /\ 2 * (g - 1) + k \in 1..Len(s)
         /\ Groups(s)[g][k] = s[2 * (g - 1) + k]
<1>1. Len(s) \in Nat
  OBVIOUS
<1>2. g \in 1..((Len(s) + 1) \div 2)
  BY DEF Groups
<1>3. g \in Nat \ {0} /\ 2 * g <= Len(s) + 1
  BY <1>1, <1>2
<1>4. Groups(s)[g] = IF 2 * g <= Len(s) THEN <<s[2 * g - 1], s[2 * g]>> ELSE <<s[2 * g - 1]>>
  BY <1>2 DEF Groups
<1>5. CASE 2 * g <= Len(s)
  <2>1. k = 1 \/ k = 2
    BY <1>4, <1>5
  <2>2. CASE k = 1
    <3>1. 2 * (g - 1) + k = 2 * g - 1 /\ 2 * (g - 1) + k \in 1..Len(s)
      BY <1>1, <1>3, <1>5, <2>2
    <3> QED BY <1>3, <1>4, <1>5, <2>2, <3>1
  <2>3. CASE k = 2
    <3>1. 2 * (g - 1) + k = 2 * g /\ 2 * (g - 1) + k \in 1..Len(s)
      BY <1>1, <1>3, <1>5, <2>3
    <3> QED BY <1>3, <1>4, <1>5, <2>3, <3>1
  <2> QED BY <2>1, <2>2, <2>3
<1>6. CASE ~(2 * g <= Len(s))
  <2>1. k = 1
    BY <1>4, <1>6
  <2>2. 2 * (g - 1) + k = 2 * g - 1 /\ 2 * (g - 1) + k \in 1..Len(s)
    BY <1>1, <1>3, <1>6, <2>1
  <2> QED BY <1>3, <1>4, <1>6, <2>1, <2>2
<1> QED BY <1>5, <1>6

\* What a delete takes is stored.
LEMMA DeleteTypes ==
  ASSUME TypeOK, NEW t \in Tabs, NEW g, NEW k, DeleteSavedSearch(t, g, k)
  PROVE  TypeOK'
<1> USE DEF TypeOK
<1>1. /\ g \in DOMAIN Groups(offered[t]) /\ k \in DOMAIN Groups(offered[t])[g]
      /\ offered[t] \in Seq(Searches)
  BY DEF DeleteSavedSearch
<1>2. /\ g \in Nat \ {0}
      /\ 2 * (g - 1) + k \in 1..Len(offered[t])
      /\ Groups(offered[t])[g][k] = offered[t][2 * (g - 1) + k]
  BY <1>1, GroupsShow
<1>3. Groups(offered[t])[g][k] \in Searches
  BY <1>1, <1>2
<1>4. At(stored, g - 1) \in Searches \cup {None}
  BY <1>2, AtType
<1>5. stored' \in Seq(Searches)
  <2>1. CASE g - 1 < Len(stored)
    <3>0. Len(stored) \in Nat
      OBVIOUS
    <3>1. g \in 1..Len(stored) /\ (g - 1) + 1 = g
      BY <1>2, <2>1, <3>0
    <3>2. RemoveAt(stored, g) \in Seq(Searches)
      BY <3>1, Removed
    <3> QED BY <2>1, <3>1, <3>2 DEF DeleteSavedSearch
  <2>2. CASE ~(g - 1 < Len(stored))
    BY <2>2 DEF DeleteSavedSearch
  <2> QED BY <2>1, <2>2
<1>6. last' = [op |-> "delete", chosen |-> Groups(offered[t])[g][k], got |-> At(stored, g - 1)]
  BY DEF DeleteSavedSearch
<1>7. offered' = [offered EXCEPT ![t] = stored'] /\ UNCHANGED <<added, screen>>
  BY DEF DeleteSavedSearch
<1>8. offered' \in [Tabs -> Seq(Searches)]
  BY <1>5, <1>7
<1>9. last' \in [op : {"none", "pick", "delete"}, chosen : Searches \cup {None},
                 got : Searches \cup {None}]
  BY <1>3, <1>4, <1>6
<1> QED BY <1>5, <1>7, <1>8, <1>9

\* So is what a pick takes.
LEMMA PickTypes ==
  ASSUME TypeOK, NEW t \in Tabs, NEW index \in Nat, Pick(t, index)
  PROVE  TypeOK'
<1> USE DEF TypeOK
<1>1. /\ At(offered[t], index) \in Searches \cup {None}
      /\ At(stored, index) \in Searches \cup {None}
  BY AtType
<1> QED BY <1>1 DEF Pick, Goto

LEMMA StepTypes == ASSUME TypeOK, [Next]_vars PROVE TypeOK'
<1> USE DEF TypeOK
<1>1. CASE UNCHANGED vars
  BY <1>1 DEF vars
<1>2. ASSUME NEW t \in Tabs,
             \/ ShowSaveSearchModal(t) \/ CancelSaveSearch(t) \/ CancelPicker(t)
             \/ LeaveManage(t)
      PROVE  TypeOK'
  BY <1>2 DEF ShowSaveSearchModal, CancelSaveSearch, CancelPicker, LeaveManage, Goto
<1>4. ASSUME NEW t \in Tabs, ShowPicker(t) \/ OpenManage(t) PROVE TypeOK'
  <2>1. offered' \in [Tabs -> Seq(Searches)]
    BY <1>4 DEF ShowPicker, OpenManage
  <2> QED BY <1>4, <2>1 DEF ShowPicker, OpenManage, Goto
<1>5. ASSUME NEW t \in Tabs, PickNothing(t) PROVE TypeOK'
  BY <1>5 DEF PickNothing, Goto
<1>3. ASSUME NEW t \in Tabs, AddSavedSearch(t) PROVE TypeOK'
  <2>1. added + 1 \in Searches /\ added + 1 \in 0..MaxAdds
    BY <1>3, SavedSearchesAssumption DEF AddSavedSearch, Searches
  <2>2. Append(stored, added + 1) \in Seq(Searches)
    BY <2>1
  <2> QED BY <1>3, <2>1, <2>2 DEF AddSavedSearch, Goto
<1> QED
  BY <1>1, <1>2, <1>3, <1>4, <1>5, PickTypes, DeleteTypes, SavedSearchesAssumption DEF Next

\* The variables keep their types: whatever a position points at by now, a button gets a
\* search that has been saved, or none.
THEOREM SearchesTypeCorrect == Spec => []TypeOK
<1>1. Init => TypeOK
  BY SavedSearchesAssumption DEF Init, TypeOK
<1>2. TypeOK /\ [Next]_vars => TypeOK'
  BY StepTypes
<1> QED BY <1>1, <1>2, PTL DEF Spec

-----------------------------------------------------------------------------
(* What a position gets. *)

\* A position of a list is the same position of every list that continues it.
LEMMA PrefixPosition ==
  ASSUME NEW S, NEW s \in Seq(S), NEW r \in Seq(S), IsPrefix(s, r),
         NEW index \in 0..(Len(s) - 1)
  PROVE  At(s, index) = At(r, index)
<1>1. Len(s) \in Nat /\ Len(r) \in Nat /\ Len(s) <= Len(r)
  BY DEF IsPrefix
<1>2. index + 1 \in 1..Len(s) /\ index \in 0..(Len(r) - 1)
  BY <1>1
<1>3. /\ SubSeq(s, 1, Len(s))[index + 1] = s[index + 1]
      /\ SubSeq(r, 1, Len(s))[index + 1] = r[index + 1]
  BY <1>1, <1>2
<1>4. s[index + 1] = r[index + 1]
  BY <1>3 DEF IsPrefix
<1> QED BY <1>2, <1>4 DEF At

\* A tab's step leaves the screens of the others alone.
LEMMA OtherScreens ==
  ASSUME TypeOK, NEW t \in Tabs, NEW u \in Tabs, u # t, NEW from, NEW to, Goto(t, from, to)
  PROVE  screen'[u] = screen[u]
BY DEF TypeOK, Goto

\* Only these steps take a position.
Takes(t) ==
  \/ PickNothing(t)
  \/ \E index \in 0..(MaxAdds - 1) : Pick(t, index)
  \/ \E g \in 1..MaxAdds, k \in {1, 2} : DeleteSavedSearch(t, g, k)

LEMMA TakersOnly ==
  ASSUME [Next]_vars, last' # last
  PROVE  \E t \in Tabs : Takes(t)
BY DEF Next, vars, ShowSaveSearchModal, CancelSaveSearch, AddSavedSearch, ShowPicker,
       CancelPicker, OpenManage, LeaveManage, Takes

\* The picker gets the search that was chosen if what is stored continues what it
\* offers: positions taken when it was drawn are good as long as no tab deletes
\* (SavedSearchesWidget.js, SettingsService.js getSavedSearchByIndex).
THEOREM PickersGetTheirChoice == Spec => PickGivesChosen
<1> DEFINE Given ==
      \A t \in Tabs :
        /\ screen[t] = "picker" /\ last' # last
        /\ screen'[t] = "home"
        /\ IsPrefix(offered[t], stored)
        => last'.got = last'.chosen
<1>1. TypeOK /\ [Next]_vars => [Given]_vars
  <2> SUFFICES ASSUME TypeOK, [Next]_vars, NEW t \in Tabs,
                      screen[t] = "picker", last' # last, screen'[t] = "home",
                      IsPrefix(offered[t], stored)
               PROVE  last'.got = last'.chosen
    OBVIOUS
  <2>1. PICK u \in Tabs : Takes(u)
    BY TakersOnly
  <2>2. CASE \E g \in 1..MaxAdds, k \in {1, 2} : DeleteSavedSearch(u, g, k)
    BY <2>2 DEF DeleteSavedSearch
  <2>3. CASE PickNothing(u)
    BY <2>3 DEF PickNothing
  <2>4. ASSUME NEW index \in 0..(MaxAdds - 1), Pick(u, index)
        PROVE  last'.got = last'.chosen
    <3>1. u = t
      BY <2>4, OtherScreens DEF Pick
    <3>2. index \in 0..(Len(offered[t]) - 1)
      BY <2>4, <3>1 DEF Pick
    <3>3. At(offered[t], index) = At(stored, index)
      BY <3>2, PrefixPosition DEF TypeOK
    <3> QED BY <2>4, <3>1, <3>3 DEF Pick
  <2> QED BY <2>1, <2>2, <2>3, <2>4 DEF Takes
<1> QED BY <1>1, SearchesTypeCorrect, PTL DEF Spec, PickGivesChosen
==============================================================================
