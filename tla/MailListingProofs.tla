-------------------------- MODULE MailListingProofs ---------------------------
(***************************************************************************)
(* The number of pages in an answer fits the number of mails, and every      *)
(* variable keeps its type, for every length of a page and whatever happens  *)
(* to the mailbox.                                                          *)
(***************************************************************************)
EXTENDS MailListing, FiniteSetTheorems, TLAPS

\* What the quotient is.
LEMMA Quotient ==
  ASSUME NEW n \in Nat, NEW d \in Nat \ {0}
  PROVE  /\ n \div d \in Nat
         /\ (n \div d) * d <= n
         /\ n < (n \div d) * d + d
  OBVIOUS

\* The correction makes up for the rounding, once and only where it is needed.
LEMMA TotalPagesFit ==
  ASSUME NEW n \in Nat
  PROVE  /\ TotalPages(n) \in Nat
         /\ TotalPages(n) * PageLength >= n
         /\ n > 0 => (TotalPages(n) - 1) * PageLength < n
         /\ n = 0 => TotalPages(n) = 0
<1> DEFINE q == n \div PageLength
<1>1. PageLength \in Nat \ {0}
  BY MailListingAssumption
<1>2. q \in Nat /\ q * PageLength <= n /\ n < q * PageLength + PageLength
  BY <1>1, Quotient
<1>3. TotalPages(n) = IF q * PageLength < n THEN q + 1 ELSE q
  BY DEF TotalPages
<1> HIDE DEF q
<1>4. /\ (q + 1) * PageLength = q * PageLength + PageLength
      /\ (q - 1) * PageLength = q * PageLength - PageLength
  BY <1>1, <1>2
<1>5. CASE q * PageLength < n
  <2>1. TotalPages(n) = q + 1 /\ (q + 1) - 1 = q
    BY <1>2, <1>3, <1>5
  <2> QED BY <1>1, <1>2, <1>4, <1>5, <2>1
<1>6. CASE q * PageLength = n
  <2>1. TotalPages(n) = q
    BY <1>3, <1>6
  <2>2. n = 0 => q = 0
    BY <1>1, <1>2, <1>6
  <2> QED BY <1>1, <1>2, <1>4, <1>6, <2>1, <2>2
<1> QED BY <1>1, <1>2, <1>5, <1>6

\* The answers of GetMailCollection in handlers/getmail.go count pages that hold all the
\* mails counted, none of them empty.
THEOREM PagesFit == Spec => []PagesFitRecords
<1> DEFINE Inv == mails \subseteq MailIds /\ PagesFitRecords
<1>1. Init => Inv
  BY DEF Init, PagesFitRecords
<1>2. Inv /\ [Next]_vars => Inv'
  <2> SUFFICES ASSUME Inv, [Next]_vars PROVE Inv'
    OBVIOUS
  <2>1. CASE GetMailCount
    <3> DEFINE n == Cardinality(mails)
    <3>1. n \in Nat
      BY MailListingAssumption, FS_Subset, FS_CardinalityType
    <3>2. answer'.pages = TotalPages(n) /\ answer'.records = n /\ mails' = mails
      BY <2>1 DEF GetMailCount, Selected
    <3> HIDE DEF n
    <3> QED BY <3>1, <3>2, TotalPagesFit DEF PagesFitRecords
  <2>2. CASE UNCHANGED vars
    BY <2>2 DEF vars, PagesFitRecords
  <2>3. CASE MailboxChanges
    BY <2>3 DEF MailboxChanges, PagesFitRecords
  <2>4. CASE GetMailCollection
    BY <2>4 DEF GetMailCollection, PagesFitRecords
  <2>5. ASSUME NEW page, Ask(page) PROVE Inv'
    BY <2>5 DEF Ask, PagesFitRecords
  <2> QED BY <2>1, <2>2, <2>3, <2>4, <2>5 DEF Next
<1> QED BY <1>1, <1>2, PTL DEF Spec

-----------------------------------------------------------------------------
(* Types. *)

\* A page has one mail at least, so there are no more pages than mails.
LEMMA NoMorePages ==
  ASSUME NEW n \in Nat
  PROVE  TotalPages(n) <= n
<1> DEFINE q == n \div PageLength
<1>1. PageLength \in Nat \ {0}
  BY MailListingAssumption
<1>2. q \in Nat /\ q * PageLength <= n
  BY <1>1, Quotient
<1>3. TotalPages(n) = IF q * PageLength < n THEN q + 1 ELSE q
  BY DEF TotalPages
<1> HIDE DEF q
<1>4. q <= q * PageLength /\ q * PageLength \in Nat
  <2>1. \A a, b \in Nat : b >= 1 => a <= a * b
    OBVIOUS
  <2> QED BY <1>1, <1>2, <2>1
<1> QED BY <1>2, <1>3, <1>4

\* What is fetched are mails, and an answer counts mails that there were and no more pages
\* than mails (GetMailCollection in handlers/getmail.go), whatever comes and goes between
\* its two questions.
THEOREM ListingTypeCorrect == Spec => []TypeOK
<1>1. Init => TypeOK
  BY DEF Init, TypeOK
<1>2. TypeOK /\ [Next]_vars => TypeOK'
  <2> SUFFICES ASSUME TypeOK, [Next]_vars PROVE TypeOK'
    OBVIOUS
  <2> USE DEF TypeOK
  <2>1. CASE GetMailCount
    <3> DEFINE n == Cardinality(mails)
    <3>1. IsFiniteSet(mails) /\ n \in Nat /\ n <= Cardinality(MailIds)
      BY MailListingAssumption, FS_Subset, FS_CardinalityType
    <3>2. Cardinality(MailIds) \in Nat
      BY MailListingAssumption, FS_CardinalityType
    <3>3. /\ answer' = [at |-> "answered", pages |-> TotalPages(n), records |-> n]
          /\ UNCHANGED <<mails, asked, items>>
      BY <2>1 DEF GetMailCount, Selected
    <3> HIDE DEF n
    <3>4. TotalPages(n) \in Nat /\ TotalPages(n) <= n /\ n \in 0..Cardinality(MailIds)
      BY <3>1, <3>2, TotalPagesFit, NoMorePages
    <3>5. answer' \in Answered /\ answer'.pages <= answer'.records
      BY <3>3, <3>4 DEF Answered
    <3> QED BY <3>3, <3>5
  <2>2. CASE UNCHANGED vars
    BY <2>2 DEF vars
  <2>3. CASE MailboxChanges
    BY <2>3 DEF MailboxChanges
  <2>4. CASE GetMailCollection
    <3>1. items' \subseteq MailIds
      BY <2>4 DEF GetMailCollection, Selected, kSubset
    <3> QED BY <2>4, <3>1 DEF GetMailCollection
  <2>5. ASSUME NEW page \in 1..MaxPage, Ask(page) PROVE TypeOK'
    BY <2>5 DEF Ask
  <2> QED BY <2>1, <2>2, <2>3, <2>4, <2>5 DEF Next
<1> QED BY <1>1, <1>2, PTL DEF Spec
==============================================================================
