--------------------------- MODULE SelectorProofs ---------------------------
(***************************************************************************)
(* Proofs about purpose selectors: the evaluation ends for every selector,  *)
(* panics only over circular ones, and the entry that decides is the first  *)
(* whose selector means the purposes of the Cluster.                        *)
(***************************************************************************)
EXTENDS DocumentedSelectors, FiniteSetTheorems, WellFoundedInduction, TLAPS

-----------------------------------------------------------------------------
(* The least member of a set of numbers.  The induction theorems of the      *)
(* library take an operator; what follows goes by minimal elements instead.  *)

\* A set of naturals that is not empty has a least member: of the intervals
\* below its members, one has no other inside.
LEMMA LeastNatural ==
    ASSUME NEW S \in SUBSET Nat, S # {}
    PROVE  \E m \in S : \A k \in S : m <= k
  <1> DEFINE Below(n) == {i \in Nat : i < n}
             family == {Below(n) : n \in S}
  <1>1. \A n \in Nat : IsFiniteSet(Below(n))
      <2> SUFFICES ASSUME NEW n \in Nat PROVE IsFiniteSet(Below(n))
          OBVIOUS
      <2>1. Below(n) \in SUBSET Nat /\ \A i \in Below(n) : i <= n
          OBVIOUS
      <2> QED
          BY <2>1, FS_BoundedSetOfNaturals
  <1>2. family \subseteq FiniteSubsetsOf(Nat) /\ family # {}
      BY <1>1 DEF FiniteSubsetsOf
  <1>3. PICK least \in family : \A other \in family :
            <<other, least>> \notin StrictSubsetOrdering(Nat)
      BY <1>2, FS_StrictSubsetOrderingWellFounded, WFMin
  <1>4. PICK m \in S : least = Below(m)
      BY <1>3
  <1>5. ASSUME NEW k \in S, k < m PROVE FALSE
      <2>1. Below(k) \subseteq Below(m) /\ k \in Below(m) /\ k \notin Below(k)
          BY <1>5
      <2>2. Below(k) \in family
          OBVIOUS
      <2> HIDE DEF Below, family
      <2>3. Below(k) # Below(m)
          BY <2>1
      <2> QED
          BY <1>2, <1>3, <1>4, <2>1, <2>2, <2>3 DEF StrictSubsetOrdering, FiniteSubsetsOf
  <1> QED
      BY <1>5

\* The least member of a nonempty set of naturals is one of its members.
LEMMA LeastMember ==
    ASSUME NEW S \in SUBSET Nat, S # {}
    PROVE  Min(S) \in S /\ \A k \in S : Min(S) <= k
  BY LeastNatural DEF Min

\* Induction over the naturals, for a set.
LEMMA AllNaturals ==
    ASSUME NEW S, 0 \in S, \A n \in Nat : n \in S => n + 1 \in S
    PROVE  Nat \subseteq S
  <1> SUFFICES ASSUME Nat \ S # {} PROVE FALSE
      OBVIOUS
  <1>1. PICK m \in Nat \ S : \A k \in Nat \ S : m <= k
      BY LeastNatural
  <1>2. m # 0 /\ m - 1 \in Nat /\ m - 1 \notin Nat \ S
      BY <1>1
  <1> QED
      BY <1>1, <1>2

-----------------------------------------------------------------------------
(* The evaluation of one call, by the results of the calls it makes.         *)

Results == {"match", "no", "panic"}

\* A list ends at its first result that ends the loop, or runs to the end.
LEMMA FirstOfList ==
    ASSUME NEW results, NEW n \in Nat, DOMAIN results = 1 .. n, NEW stop, NEW otherwise
    PROVE  \/ /\ FirstOf(results, stop, otherwise) = otherwise
              /\ \A i \in 1 .. n : results[i] \notin {stop, "panic"}
           \/ \E i \in 1 .. n : /\ FirstOf(results, stop, otherwise) = results[i]
                                /\ results[i] \in {stop, "panic"}
  <1> DEFINE ends == {i \in DOMAIN results : results[i] \in {stop, "panic"}}
  <1>1. CASE ends = {}
      BY <1>1 DEF FirstOf
  <1>2. CASE ends # {}
      <2>1. ends \in SUBSET Nat
          OBVIOUS
      <2>2. Min(ends) \in ends
          BY <1>2, <2>1, LeastMember
      <2> QED
          BY <1>2, <2>2 DEF FirstOf
  <1> QED
      BY <1>1, <1>2

\* A list without a panic decides like the quantifier that it stands for.
LEMMA CalmList ==
    ASSUME NEW results, NEW n \in Nat, DOMAIN results = 1 .. n, NEW stop, NEW otherwise,
           stop # "panic", \A i \in 1 .. n : results[i] # "panic"
    PROVE  FirstOf(results, stop, otherwise)
             = IF \E i \in 1 .. n : results[i] = stop THEN stop ELSE otherwise
  BY FirstOfList

\* The requirements that the one at r evaluates: those in the field that counts.
Kids(req, r) ==
    CASE Field(req[r]) = "not" -> {req[r].not}
      [] Field(req[r]) = "and" -> {req[r].and[i] : i \in DOMAIN req[r].and}
      [] Field(req[r]) = "or"  -> {req[r].or[i] : i \in DOMAIN req[r].or}
      [] OTHER -> {}

Fields == {"name", "not", "and", "or", "none"}

\* A requirement is read by one of its fields, or as empty.
LEMMA FieldType ==
    ASSUME NEW r PROVE Field(r) \in Fields
  BY DEF Field, Fields

\* A list in a requirement.
LEMMA ListType ==
    ASSUME NEW req \in [Addresses -> Requirement], NEW r \in Addresses
    PROVE  /\ req[r].and \in Seq(Addresses) /\ req[r].or \in Seq(Addresses)
           /\ DOMAIN req[r].and = 1 .. Len(req[r].and) /\ Len(req[r].and) \in Nat
           /\ DOMAIN req[r].or = 1 .. Len(req[r].or) /\ Len(req[r].or) \in Nat
           /\ \A i \in DOMAIN req[r].and : req[r].and[i] \in Addresses
           /\ \A i \in DOMAIN req[r].or : req[r].or[i] \in Addresses
           /\ Field(req[r]) = "not" => req[r].not \in Addresses
  BY DEF Requirement, Field

\* The requirements a requirement refers to have addresses.
LEMMA KidsType ==
    ASSUME NEW req \in [Addresses -> Requirement], NEW r \in Addresses
    PROVE  Kids(req, r) \subseteq Addresses
  BY ListType, FieldType DEF Kids, Fields

\* The result of a call depends only on those of the calls for its kids.
LEMMA ResultByKids ==
    ASSUME NEW req \in [Addresses -> Requirement], NEW p, NEW r \in Addresses,
           NEW seen \in SUBSET Addresses, NEW f, NEW g, NEW seen2 \in SUBSET Addresses,
           r \in seen <=> r \in seen2,
           r \notin seen => \A k \in Kids(req, r) :
               f[<<k, seen \cup {r}>>] = g[<<k, seen2 \cup {r}>>]
    PROVE  Result(req, p, f, <<r, seen>>) = Result(req, p, g, <<r, seen2>>)
  <1>1. r # Nil
      BY AddressesAssumption
  <1>2. CASE r \in seen
      BY <1>1, <1>2 DEF Result
  <1>3. CASE r \notin seen
      <2> DEFINE results(h, s, kids) == [i \in DOMAIN kids |-> h[<<kids[i], s \cup {r}>>]]
      <2>1. CASE Field(req[r]) = "name"
          BY <1>1, <1>3, <2>1 DEF Result
      <2>2. CASE Field(req[r]) = "none"
          BY <1>1, <1>3, <2>2 DEF Result
      <2>3. CASE Field(req[r]) = "not"
          <3>1. f[<<req[r].not, seen \cup {r}>>] = g[<<req[r].not, seen2 \cup {r}>>]
              BY <1>3, <2>3 DEF Kids
          <3> QED
              BY <1>1, <1>3, <2>3, <3>1 DEF Result
      <2>4. CASE Field(req[r]) = "and"
          <3>1. results(f, seen, req[r].and) = results(g, seen2, req[r].and)
              BY <1>3, <2>4 DEF Kids
          <3> QED
              BY <1>1, <1>3, <2>4, <3>1 DEF Result, SeenAt
      <2>5. CASE Field(req[r]) = "or"
          <3>1. results(f, seen, req[r].or) = results(g, seen2, req[r].or)
              BY <1>3, <2>5 DEF Kids
          <3> QED
              BY <1>1, <1>3, <2>5, <3>1 DEF Result, SeenAt
      <2> QED
          BY <2>1, <2>2, <2>3, <2>4, <2>5, FieldType DEF Fields
  <1> QED
      BY <1>2, <1>3

\* One call of matches returns a result when the calls below it do.
LEMMA ResultType ==
    ASSUME NEW req \in [Addresses -> Requirement], NEW p, NEW call \in Calls,
           NEW f \in [Calls -> Results]
    PROVE  Result(req, p, f, call) \in Results
  <1>1. PICK r \in Addresses \cup {Nil}, seen \in SUBSET Addresses : call = <<r, seen>>
      BY DEF Calls
  <1>2. CASE r = Nil \/ r \in seen
      BY <1>1, <1>2 DEF Result, Results
  <1>3. CASE r # Nil /\ r \notin seen
      <2>0. r \in Addresses /\ seen \cup {r} \in SUBSET Addresses
          BY <1>1, <1>3
      <2>1. \A k \in Addresses : f[<<k, seen \cup {r}>>] \in Results
          BY <2>0 DEF Calls
      <2> DEFINE results(kids) == [i \in DOMAIN kids |-> f[<<kids[i], seen \cup {r}>>]]
      <2>2. CASE Field(req[r]) = "name"
          BY <1>1, <1>3, <2>2 DEF Result, Results
      <2>3. CASE Field(req[r]) = "none"
          BY <1>1, <1>3, <2>3 DEF Result, Results
      <2>4. CASE Field(req[r]) = "not"
          <3>1. f[<<req[r].not, seen \cup {r}>>] \in Results
              BY <2>0, <2>1, <2>4, ListType
          <3> QED
              BY <1>1, <1>3, <2>4, <3>1 DEF Result, Results, Negation
      <2>5. CASE Field(req[r]) = "and"
          <3>1. /\ DOMAIN results(req[r].and) = 1 .. Len(req[r].and)
                /\ Len(req[r].and) \in Nat
                /\ \A i \in 1 .. Len(req[r].and) : results(req[r].and)[i] \in Results
              BY <2>0, <2>1, ListType
          <3>2. FirstOf(results(req[r].and), "no", "match") \in Results
              <4> HIDE DEF results
              <4> QED
                  BY <3>1, FirstOfList DEF Results
          <3> QED
              BY <1>1, <1>3, <2>5, <3>2 DEF Result, SeenAt
      <2>6. CASE Field(req[r]) = "or"
          <3>1. /\ DOMAIN results(req[r].or) = 1 .. Len(req[r].or)
                /\ Len(req[r].or) \in Nat
                /\ \A i \in 1 .. Len(req[r].or) : results(req[r].or)[i] \in Results
              BY <2>0, <2>1, ListType
          <3>2. FirstOf(results(req[r].or), "match", "no") \in Results
              <4> HIDE DEF results
              <4> QED
                  BY <3>1, FirstOfList DEF Results
          <3> QED
              BY <1>1, <1>3, <2>6, <3>2 DEF Result, SeenAt
      <2> QED
          BY <2>2, <2>3, <2>4, <2>5, <2>6, FieldType DEF Fields
  <1> QED
      BY <1>2, <1>3

-----------------------------------------------------------------------------
(* Every evaluation ends: the recursion has a result for every call.         *)

\* The requirements that a call has not seen yet; each call within it sees one
\* more.
Unseen(call) == Addresses \ call[2]

\* A nested call has fewer requirements left to meet: the recursion ends.
LEMMA UnseenShrinks ==
    ASSUME NEW seen \in SUBSET Addresses, NEW r \in Addresses \ seen, NEW k
    PROVE  /\ Cardinality(Unseen(<<r, seen>>)) \in Nat
           /\ Cardinality(Unseen(<<k, seen \cup {r}>>)) \in Nat
           /\ Cardinality(Unseen(<<k, seen \cup {r}>>)) < Cardinality(Unseen(<<r, seen>>))
  <1>1. IsFiniteSet(Addresses \ seen)
      BY AddressesAssumption, FS_Difference
  <1>2. Unseen(<<r, seen>>) = Addresses \ seen
      BY DEF Unseen
  <1>3. Unseen(<<k, seen \cup {r}>>) = (Addresses \ seen) \ {r}
      BY DEF Unseen
  <1>4. Cardinality((Addresses \ seen) \ {r}) = Cardinality(Addresses \ seen) - 1
      BY <1>1, FS_RemoveElement
  <1>5. Cardinality(Addresses \ seen) \in Nat /\ Cardinality((Addresses \ seen) \ {r}) \in Nat
      BY <1>1, FS_RemoveElement, FS_CardinalityType
  <1> QED
      BY <1>2, <1>3, <1>4, <1>5

\* The calls whose results are known when n requirements can still be seen.
Evaluated(req, p, n, f) ==
    /\ f \in [Calls -> Results]
    /\ \A call \in Calls : Cardinality(Unseen(call)) < n => f[call] = Result(req, p, f, call)

\* Calls with at most n requirements left are answered, so those with n + 1 are.
LEMMA EvaluateNext ==
    ASSUME NEW req \in [Addresses -> Requirement], NEW p, NEW n \in Nat, NEW f,
           Evaluated(req, p, n, f)
    PROVE  \E g : Evaluated(req, p, n + 1, g)
  <1> DEFINE g == [call \in Calls |-> IF Cardinality(Unseen(call)) < n
                                        THEN f[call] ELSE Result(req, p, f, call)]
  <1>1. f \in [Calls -> Results] /\ g \in [Calls -> Results]
      BY ResultType DEF Evaluated
  <1>2. \A call \in Calls : g[call] = Result(req, p, f, call)
      BY DEF Evaluated
  <1>3. ASSUME NEW call \in Calls, Cardinality(Unseen(call)) < n + 1
        PROVE  Result(req, p, f, call) = Result(req, p, g, call)
      <2>1. PICK r \in Addresses \cup {Nil}, seen \in SUBSET Addresses : call = <<r, seen>>
          BY DEF Calls
      <2>2. CASE r = Nil
          BY <2>1, <2>2 DEF Result
      <2>3. CASE r \in Addresses
          <3>1. ASSUME r \notin seen, NEW k \in Kids(req, r)
                PROVE  f[<<k, seen \cup {r}>>] = g[<<k, seen \cup {r}>>]
              <4>1. <<k, seen \cup {r}>> \in Calls
                  BY <2>3, KidsType DEF Calls
              <4>2. Cardinality(Unseen(<<k, seen \cup {r}>>)) < n
                  BY <1>3, <2>1, <2>3, <3>1, UnseenShrinks
              <4> QED
                  BY <4>1, <4>2
          <3>2. Result(req, p, f, <<r, seen>>) = Result(req, p, g, <<r, seen>>)
              <4>1. PICK same \in SUBSET Addresses : same = seen
                  OBVIOUS
              <4>2. r \notin same => \A k \in Kids(req, r) :
                        f[<<k, seen \cup {r}>>] = g[<<k, same \cup {r}>>]
                  BY <3>1, <4>1
              <4> HIDE DEF g
              <4>3. r \in seen <=> r \in same
                  BY <4>1
              <4>4. Result(req, p, f, <<r, seen>>) = Result(req, p, g, <<r, same>>)
                  BY <2>3, <4>2, <4>3, ResultByKids
              <4> QED
                  BY <4>1, <4>4
          <3> QED
              BY <2>1, <3>2
      <2> QED
          BY <2>2, <2>3
  <1>4. \A call \in Calls : Cardinality(Unseen(call)) < n + 1 => g[call] = Result(req, p, g, call)
      BY <1>2, <1>3
  <1> QED
      BY <1>1, <1>4 DEF Evaluated

Solves(req, p, f) == f = [call \in Calls |-> Result(req, p, f, call)]

\* The equations of the recursive calls have a solution.
LEMMA EvaluationExists ==
    ASSUME NEW req \in [Addresses -> Requirement], NEW p
    PROVE  \E f \in [Calls -> Results] : Solves(req, p, f)
  <1> DEFINE depths == {n \in Nat : \E f : Evaluated(req, p, n, f)}
  <1>1. 0 \in depths
      <2> DEFINE f == [call \in Calls |-> "no"]
      <2>1. \A call \in Calls : ~(Cardinality(Unseen(call)) < 0)
          <3> SUFFICES ASSUME NEW call \in Calls PROVE Cardinality(Addresses \ call[2]) \in Nat
              BY DEF Unseen
          <3> QED
              BY AddressesAssumption, FS_Difference, FS_CardinalityType
      <2>2. Evaluated(req, p, 0, f)
          BY <2>1 DEF Evaluated, Results
      <2> QED
          BY <2>2
  <1>2. \A n \in Nat : n \in depths => n + 1 \in depths
      BY EvaluateNext
  <1>3. Cardinality(Addresses) \in Nat
      BY AddressesAssumption, FS_CardinalityType
  <1>4. Cardinality(Addresses) + 1 \in depths
      <2> HIDE DEF depths
      <2>1. Nat \subseteq depths
          BY <1>1, <1>2, AllNaturals
      <2> QED
          BY <1>3, <2>1
  <1>5. PICK f : Evaluated(req, p, Cardinality(Addresses) + 1, f)
      BY <1>4
  <1>6. ASSUME NEW call \in Calls PROVE Cardinality(Unseen(call)) < Cardinality(Addresses) + 1
      <2>1. Unseen(call) \in SUBSET Addresses
          BY DEF Unseen
      <2>2. Cardinality(Unseen(call)) \in Nat /\ Cardinality(Unseen(call)) <= Cardinality(Addresses)
          BY <2>1, AddressesAssumption, FS_Subset, FS_CardinalityType
      <2> QED
          BY <1>3, <2>2
  <1>7. f \in [Calls -> Results] /\ \A call \in Calls : f[call] = Result(req, p, f, call)
      BY <1>5, <1>6 DEF Evaluated
  <1>8. Solves(req, p, f)
      BY <1>7 DEF Solves
  <1> QED
      BY <1>7, <1>8

\* Two functions with the results of the calls are the same: of the calls where
\* they differ, one has the fewest requirements to see, and none within it is
\* such a call.
LEMMA EvaluationUnique ==
    ASSUME NEW req \in [Addresses -> Requirement], NEW p,
           NEW f, Solves(req, p, f), NEW g, Solves(req, p, g)
    PROVE  f = g
  <1> DEFINE differ == {call \in Calls : f[call] # g[call]}
             depths == {Cardinality(Unseen(call)) : call \in differ}
  <1>0. \A call \in Calls : /\ f[call] = Result(req, p, f, call)
                            /\ g[call] = Result(req, p, g, call)
      BY DEF Solves
  <1>1. \A call \in Calls : Cardinality(Unseen(call)) \in Nat
      BY AddressesAssumption, FS_Difference, FS_CardinalityType DEF Unseen
  <1>2. CASE differ = {}
      <2>1. \A call \in Calls : f[call] = g[call]
          BY <1>2
      <2>2. [call \in Calls |-> f[call]] = f /\ [call \in Calls |-> g[call]] = g
          BY DEF Solves
      <2> QED
          BY <2>1, <2>2
  <1>3. CASE differ # {}
      <2>1. depths \in SUBSET Nat /\ depths # {}
          BY <1>1, <1>3
      <2>2. PICK call \in differ : \A other \in differ :
                Cardinality(Unseen(call)) <= Cardinality(Unseen(other))
          <3>1. PICK m \in depths : \A k \in depths : m <= k
              BY <2>1, LeastNatural
          <3> QED
              BY <3>1
      <2>3. PICK r \in Addresses \cup {Nil}, seen \in SUBSET Addresses : call = <<r, seen>>
          BY DEF Calls
      <2>4. f[call] # g[call] /\ f[call] = Result(req, p, f, call)
                /\ g[call] = Result(req, p, g, call)
          BY <1>0
      <2>5. CASE r = Nil
          BY <2>3, <2>4, <2>5 DEF Result
      <2>6. CASE r \in Addresses
          <3>1. PICK same \in SUBSET Addresses : same = seen
              OBVIOUS
          <3>2. ASSUME r \notin same, NEW k \in Kids(req, r)
                PROVE  f[<<k, seen \cup {r}>>] = g[<<k, same \cup {r}>>]
              <4>1. <<k, seen \cup {r}>> \in Calls
                  BY <2>6, KidsType DEF Calls
              <4>2. /\ Cardinality(Unseen(<<k, seen \cup {r}>>)) \in Nat
                    /\ Cardinality(Unseen(call)) \in Nat
                    /\ Cardinality(Unseen(<<k, seen \cup {r}>>)) < Cardinality(Unseen(call))
                  BY <2>3, <2>6, <3>1, <3>2, UnseenShrinks
              <4>3. <<k, seen \cup {r}>> \notin differ
                  BY <2>2, <4>2
              <4> QED
                  BY <3>1, <4>1, <4>3
          <3>3. r \in seen <=> r \in same
              BY <3>1
          <3>4. r \notin same => \A k \in Kids(req, r) :
                    f[<<k, seen \cup {r}>>] = g[<<k, same \cup {r}>>]
              BY <3>2
          <3>5. Result(req, p, f, <<r, seen>>) = Result(req, p, g, <<r, same>>)
              BY <2>6, <3>3, <3>4, ResultByKids
          <3> QED
              BY <2>3, <2>4, <3>1, <3>5
      <2> QED
          BY <2>5, <2>6
  <1> QED
      BY <1>2, <1>3

\* requirementMatches is what its recursive definition says.
LEMMA Evaluation ==
    ASSUME NEW req \in [Addresses -> Requirement], NEW p
    PROVE  /\ requirementMatches(req, p) \in [Calls -> Results]
           /\ \A call \in Calls : requirementMatches(req, p)[call]
                = Result(req, p, requirementMatches(req, p), call)
  <1>1. PICK f \in [Calls -> Results] : Solves(req, p, f)
      BY EvaluationExists
  <1>2. PICK g : g = requirementMatches(req, p) /\ Solves(req, p, g)
      BY <1>1 DEF requirementMatches, Solves
  <1>3. f = g
      BY <1>1, <1>2, EvaluationUnique
  <1>4. \A call \in Calls : g[call] = Result(req, p, g, call)
      BY <1>2 DEF Solves
  <1> QED
      BY <1>2, <1>3, <1>4

-----------------------------------------------------------------------------
(* Requirements inside one another.                                          *)

\* The switch over the fields follows the documented precedence.
LEMMA FieldCounts ==
    ASSUME NEW r \in Requirement
    PROVE  Field(r) = CountingField(r)
  <1> DEFINE set == {i \in DOMAIN Precedence : r[Precedence[i]] # Empty[Precedence[i]]}
  <1>1. DOMAIN Precedence = {1, 2, 3, 4}
      BY DEF Precedence
  <1>2. /\ 1 \in set <=> r.name # NoName
        /\ 2 \in set <=> r.not # Nil
        /\ 3 \in set <=> r.and # <<>>
        /\ 4 \in set <=> r.or # <<>>
      BY <1>1 DEF Precedence, Empty, Requirement
  <1>3. set \in SUBSET Nat /\ set \subseteq {1, 2, 3, 4}
      BY <1>1
  <1>4. CountingField(r) = IF set = {} THEN "none" ELSE Precedence[Min(set)]
      BY DEF CountingField
  <1> HIDE DEF set
  <1>5. CASE set = {}
      BY <1>2, <1>4, <1>5 DEF Field
  <1>6. CASE set # {}
      <2>1. PICK m \in set : m = Min(set) /\ \A k \in set : m <= k
          BY <1>3, <1>6, LeastMember
      <2>2. /\ 1 \in set => m <= 1
            /\ 2 \in set => m <= 2
            /\ 3 \in set => m <= 3
            /\ m = 1 \/ m = 2 \/ m = 3 \/ m = 4
          BY <1>3, <2>1
      <2> QED
          BY <1>2, <1>3, <1>4, <1>6, <2>1, <2>2 DEF Field, Precedence
  <1> QED
      BY <1>5, <1>6

\* The two readings of a requirement refer to the same requirements.
LEMMA KidsCount ==
    ASSUME NEW req \in [Addresses -> Requirement], NEW s \in Addresses
    PROVE  KidsOf(req, s) = Kids(req, s) /\ KidsOf(req, s) \subseteq Addresses
  <1>1. req[s] \in Requirement
      OBVIOUS
  <1>2. Field(req[s]) = CountingField(req[s])
      BY <1>1, FieldCounts
  <1>3. KidsOf(req, s) = Kids(req, s)
      BY <1>2 DEF KidsOf, Kids
  <1> QED
      BY <1>3, KidsType

Closed(req, set) == \A k \in set : KidsOf(req, k) \subseteq set

\* Inside s are its kids and what is inside them, and no more.
LEMMA InsideFacts ==
    ASSUME NEW req \in [Addresses -> Requirement], NEW s \in Addresses
    PROVE  /\ KidsOf(req, s) \subseteq Inside(req, s)
           /\ Inside(req, s) \subseteq Addresses
           /\ Closed(req, Inside(req, s))
           /\ \A set \in SUBSET Addresses :
                KidsOf(req, s) \subseteq set /\ Closed(req, set) => Inside(req, s) \subseteq set
  <1>1. KidsOf(req, s) \subseteq Inside(req, s) /\ Inside(req, s) \subseteq Addresses
      BY KidsCount DEF Inside
  <1>2. ASSUME NEW k \in Inside(req, s), NEW r \in KidsOf(req, k)
        PROVE  r \in Inside(req, s)
      <2>1. k \in Addresses /\ r \in Addresses
          BY <1>1, KidsCount
      <2>2. ASSUME NEW set \in SUBSET Addresses,
                   KidsOf(req, s) \subseteq set, \A j \in set : KidsOf(req, j) \subseteq set
            PROVE  r \in set
          <3>1. k \in set
              BY <2>2 DEF Inside
          <3> QED
              BY <2>2, <3>1
      <2> QED
          BY <2>1, <2>2 DEF Inside
  <1>3. \A set \in SUBSET Addresses :
                KidsOf(req, s) \subseteq set /\ Closed(req, set) => Inside(req, s) \subseteq set
      BY DEF Inside, Closed
  <1> QED
      BY <1>1, <1>2, <1>3 DEF Closed

\* What is inside a part of a requirement is inside the requirement.
LEMMA InsideKid ==
    ASSUME NEW req \in [Addresses -> Requirement], NEW s \in Addresses, NEW k \in Inside(req, s)
    PROVE  k \in Addresses /\ Inside(req, k) \subseteq Inside(req, s)
  <1>1. /\ k \in Addresses /\ Inside(req, s) \in SUBSET Addresses
        /\ KidsOf(req, k) \subseteq Inside(req, s)
      BY InsideFacts DEF Closed
  <1> QED
      BY <1>1, InsideFacts

\* What a well-founded requirement has inside is well-founded, and is not itself.
LEMMA WellFoundedKid ==
    ASSUME NEW req \in [Addresses -> Requirement], NEW s \in WellFounded(req),
           NEW k \in KidsOf(req, s)
    PROVE  /\ s \in Addresses /\ s # Nil /\ s \notin Inside(req, s)
           /\ k \in WellFounded(req) /\ k # Nil
           /\ {k} \cup Inside(req, k) \subseteq Inside(req, s)
  <1>1. s \in Addresses /\ s # Nil /\ \A r \in {s} \cup Inside(req, s) : r \notin Inside(req, r)
      BY AddressesAssumption DEF WellFounded, Circular
  <1>2. k \in Inside(req, s) /\ k \in Addresses /\ Inside(req, k) \subseteq Inside(req, s)
      BY <1>1, InsideFacts, InsideKid
  <1>3. k # Nil
      BY <1>2, AddressesAssumption
  <1> QED
      BY <1>1, <1>2, <1>3 DEF WellFounded, Circular

\* Induction over well-founded requirements: of those outside T, one has the
\* least inside it, and its kids are in T.
LEMMA WellFoundedInductive ==
    ASSUME NEW req \in [Addresses -> Requirement], NEW T,
           \A s \in WellFounded(req) : KidsOf(req, s) \subseteq T => s \in T
    PROVE  WellFounded(req) \subseteq T
  <1> SUFFICES ASSUME WellFounded(req) \ T # {} PROVE FALSE
      OBVIOUS
  <1> DEFINE family == {Inside(req, s) : s \in WellFounded(req) \ T}
  <1>1. WellFounded(req) \subseteq Addresses
      BY DEF WellFounded
  <1>2. \A s \in Addresses : Inside(req, s) \in FiniteSubsetsOf(Addresses)
      BY InsideFacts, AddressesAssumption, FS_Subset DEF FiniteSubsetsOf
  <1>3. family \subseteq FiniteSubsetsOf(Addresses) /\ family # {}
      BY <1>1, <1>2
  <1>4. PICK least \in family : \A other \in family :
            <<other, least>> \notin StrictSubsetOrdering(Addresses)
      <2> HIDE DEF family
      <2> QED
          BY <1>3, FS_StrictSubsetOrderingWellFounded, WFMin
  <1>5. PICK s \in WellFounded(req) \ T : least = Inside(req, s)
      BY <1>4
  <1>6. PICK k \in KidsOf(req, s) : k \notin T
      BY <1>5
  <1>7. k \in WellFounded(req) /\ {k} \cup Inside(req, k) \subseteq Inside(req, s)
      BY <1>6, WellFoundedKid
  <1>8. k \notin Inside(req, k)
      BY <1>7, AddressesAssumption DEF WellFounded, Circular
  <1>9. Inside(req, k) \in family
      BY <1>6, <1>7
  <1>10. Inside(req, k) \in SUBSET Addresses /\ Inside(req, s) \in SUBSET Addresses
      BY <1>1, <1>2, <1>5, <1>7 DEF FiniteSubsetsOf
  <1>11. Inside(req, k) # Inside(req, s)
      BY <1>7, <1>8
  <1> QED
      BY <1>4, <1>5, <1>7, <1>9, <1>10, <1>11 DEF StrictSubsetOrdering

-----------------------------------------------------------------------------
(* What a well-founded selector evaluates to.                                *)

IsEvaluation(req, p, M) == M = requirementMatches(req, p)

\* The result for s is that of its field, for the results of its kids.
ByField(req, p, s, result, kids) ==
    /\ result \in {"match", "no"}
    /\ Field(req[s]) = "name" => (result = "match" <=> req[s].name \in p)
    /\ Field(req[s]) = "not" => (result = "match" <=> \A k \in KidsOf(req, s) : kids[k] = "no")
    /\ Field(req[s]) = "and" => (result = "match" <=> \A k \in KidsOf(req, s) : kids[k] = "match")
    /\ Field(req[s]) = "or" => (result = "match" <=> \E k \in KidsOf(req, s) : kids[k] = "match")
    /\ Field(req[s]) = "none" => result = "match"

\* A solution gives a requirement the result its field demands of its parts.
LEMMA EvaluationOfRequirement ==
    ASSUME NEW req \in [Addresses -> Requirement], NEW p, NEW s \in Addresses,
           NEW M, IsEvaluation(req, p, M), NEW seen \in SUBSET Addresses, s \notin seen,
           NEW kids,
           \A k \in KidsOf(req, s) : /\ M[<<k, seen \cup {s}>>] \in {"match", "no"}
                                     /\ kids[k] = M[<<k, seen \cup {s}>>]
    PROVE  ByField(req, p, s, M[<<s, seen>>], kids)
  <1> DEFINE each(list) == [i \in DOMAIN list |-> M[<<list[i], seen \cup {s}>>]]
  <1>1. <<s, seen>> \in Calls /\ s # Nil
      BY AddressesAssumption DEF Calls
  <1>2. M[<<s, seen>>] = Result(req, p, M, <<s, seen>>)
      BY <1>1, Evaluation DEF IsEvaluation
  <1>3. KidsOf(req, s) = Kids(req, s)
      BY KidsCount
  <1>4. CASE Field(req[s]) = "name"
      BY <1>1, <1>2, <1>4 DEF Result, ByField
  <1>5. CASE Field(req[s]) = "none"
      BY <1>1, <1>2, <1>5 DEF Result, ByField
  <1>6. CASE Field(req[s]) = "not"
      <2>1. KidsOf(req, s) = {req[s].not}
          BY <1>3, <1>6 DEF Kids
      <2>2. M[<<s, seen>>] = Negation[M[<<req[s].not, seen \cup {s}>>]]
          BY <1>1, <1>2, <1>6 DEF Result
      <2> QED
          BY <1>6, <2>1, <2>2 DEF Negation, ByField
  <1>7. CASE Field(req[s]) = "and"
      <2>1. KidsOf(req, s) = {req[s].and[i] : i \in DOMAIN req[s].and}
          BY <1>3, <1>7 DEF Kids
      <2>2. M[<<s, seen>>] = FirstOf(each(req[s].and), "no", "match")
          BY <1>1, <1>2, <1>7 DEF Result, SeenAt
      <2>3. PICK n \in Nat : DOMAIN req[s].and = 1 .. n
          BY ListType
      <2>4. /\ DOMAIN each(req[s].and) = 1 .. n
            /\ \A i \in 1 .. n : each(req[s].and)[i] = kids[req[s].and[i]]
          BY <2>1, <2>3
      <2> HIDE DEF each
      <2>5. \A i \in 1 .. n : each(req[s].and)[i] # "panic"
          BY <2>1, <2>3, <2>4
      <2>6. FirstOf(each(req[s].and), "no", "match")
              = IF \E i \in 1 .. n : each(req[s].and)[i] = "no" THEN "no" ELSE "match"
          BY <2>4, <2>5, CalmList
      <2>7. (\E i \in 1 .. n : each(req[s].and)[i] = "no")
              <=> (\E k \in KidsOf(req, s) : kids[k] = "no")
          BY <2>1, <2>3, <2>4
      <2> QED
          BY <1>7, <2>2, <2>6, <2>7 DEF ByField
  <1>8. CASE Field(req[s]) = "or"
      <2>1. KidsOf(req, s) = {req[s].or[i] : i \in DOMAIN req[s].or}
          BY <1>3, <1>8 DEF Kids
      <2>2. M[<<s, seen>>] = FirstOf(each(req[s].or), "match", "no")
          BY <1>1, <1>2, <1>8 DEF Result, SeenAt
      <2>3. PICK n \in Nat : DOMAIN req[s].or = 1 .. n
          BY ListType
      <2>4. /\ DOMAIN each(req[s].or) = 1 .. n
            /\ \A i \in 1 .. n : each(req[s].or)[i] = kids[req[s].or[i]]
          BY <2>1, <2>3
      <2> HIDE DEF each
      <2>5. \A i \in 1 .. n : each(req[s].or)[i] # "panic"
          BY <2>1, <2>3, <2>4
      <2>6. FirstOf(each(req[s].or), "match", "no")
              = IF \E i \in 1 .. n : each(req[s].or)[i] = "match" THEN "match" ELSE "no"
          BY <2>4, <2>5, CalmList
      <2>7. (\E i \in 1 .. n : each(req[s].or)[i] = "match")
              <=> (\E k \in KidsOf(req, s) : kids[k] = "match")
          BY <2>1, <2>3, <2>4
      <2> QED
          BY <1>8, <2>2, <2>6, <2>7 DEF ByField
  <1> QED
      BY <1>4, <1>5, <1>6, <1>7, <1>8, FieldType DEF Fields

\* The evaluation of a well-founded requirement does not panic, and what was
\* seen on the way to it makes no difference if it is not inside.
LEMMA SeenMakesNoDifference ==
    ASSUME NEW req \in [Addresses -> Requirement], NEW p, NEW M, IsEvaluation(req, p, M)
    PROVE  \A s \in WellFounded(req) : \A seen \in SUBSET Addresses :
               ({s} \cup Inside(req, s)) \cap seen = {}
                 => M[<<s, seen>>] \in {"match", "no"} /\ M[<<s, seen>>] = M[<<s, {}>>]
  <1> DEFINE T == {s \in WellFounded(req) : \A seen \in SUBSET Addresses :
                     ({s} \cup Inside(req, s)) \cap seen = {}
                       => M[<<s, seen>>] \in {"match", "no"} /\ M[<<s, seen>>] = M[<<s, {}>>]}
  <1>1. ASSUME NEW s \in WellFounded(req), KidsOf(req, s) \subseteq T PROVE s \in T
      <2>1. s \in Addresses
          BY DEF WellFounded
      <2>2. ASSUME NEW seen \in SUBSET Addresses, ({s} \cup Inside(req, s)) \cap seen = {},
                   NEW k \in KidsOf(req, s)
            PROVE  /\ M[<<k, seen \cup {s}>>] \in {"match", "no"}
                   /\ M[<<k, seen \cup {s}>>] = M[<<k, {}>>]
          <3>1. ({k} \cup Inside(req, k)) \cap (seen \cup {s}) = {}
              BY <2>2, WellFoundedKid
          <3>2. seen \cup {s} \in SUBSET Addresses
              BY <2>1
          <3> QED
              BY <1>1, <3>1, <3>2
      <2>3. {} \in SUBSET Addresses /\ ({s} \cup Inside(req, s)) \cap {} = {}
          OBVIOUS
      <2>4. ASSUME NEW seen \in SUBSET Addresses, ({s} \cup Inside(req, s)) \cap seen = {}
            PROVE  M[<<s, seen>>] \in {"match", "no"} /\ M[<<s, seen>>] = M[<<s, {}>>]
          <3>1. M[<<s, seen>>] \in {"match", "no"}
              <4>1. PICK kids : kids = [k \in KidsOf(req, s) |-> M[<<k, seen \cup {s}>>]]
                  OBVIOUS
              <4>2. \A k \in KidsOf(req, s) : /\ M[<<k, seen \cup {s}>>] \in {"match", "no"}
                                             /\ kids[k] = M[<<k, seen \cup {s}>>]
                  BY <2>2, <2>4, <4>1
              <4>3. s \notin seen
                  BY <2>4
              <4>4. ByField(req, p, s, M[<<s, seen>>], kids)
                  BY <2>1, <4>2, <4>3, EvaluationOfRequirement
              <4> QED
                  BY <4>4 DEF ByField
          <3>2. \A k \in KidsOf(req, s) : M[<<k, seen \cup {s}>>] = M[<<k, {} \cup {s}>>]
              <4>1. \A k \in KidsOf(req, s) : M[<<k, seen \cup {s}>>] = M[<<k, {}>>]
                  BY <2>2, <2>4
              <4>2. \A k \in KidsOf(req, s) : M[<<k, {} \cup {s}>>] = M[<<k, {}>>]
                  BY <2>2, <2>3
              <4> QED
                  BY <4>1, <4>2
          <3>3. Result(req, p, M, <<s, seen>>) = Result(req, p, M, <<s, {}>>)
              <4>1. s \notin seen /\ KidsOf(req, s) = Kids(req, s)
                  BY <2>1, <2>4, KidsCount
              <4>2. PICK none \in SUBSET Addresses : none = {}
                  BY <2>3
              <4>3. s \notin seen => \A k \in Kids(req, s) :
                        M[<<k, seen \cup {s}>>] = M[<<k, none \cup {s}>>]
                  BY <3>2, <4>1, <4>2
              <4>4. s \in seen <=> s \in none
                  BY <4>1, <4>2
              <4>5. Result(req, p, M, <<s, seen>>) = Result(req, p, M, <<s, none>>)
                  BY <2>1, <4>3, <4>4, ResultByKids
              <4> QED
                  BY <4>2, <4>5
          <3>4. <<s, seen>> \in Calls /\ <<s, {}>> \in Calls
              BY <2>1 DEF Calls
          <3>5. M[<<s, seen>>] = Result(req, p, M, <<s, seen>>)
                  /\ M[<<s, {}>>] = Result(req, p, M, <<s, {}>>)
              BY <3>4, Evaluation DEF IsEvaluation
          <3> QED
              BY <3>1, <3>3, <3>5
      <2> QED
          BY <2>4
  <1>2. WellFounded(req) \subseteq T
      <2> HIDE DEF T
      <2> QED
          BY <1>1, WellFoundedInductive
  <1> QED
      BY <1>2

\* The result of a requirement without a cycle is the one its field demands.
LEMMA MatchesOfRequirement ==
    ASSUME NEW req \in [Addresses -> Requirement], NEW p, NEW s \in WellFounded(req)
    PROVE  /\ \A k \in KidsOf(req, s) :
                k \in WellFounded(req) /\ Matches(req, k, p) \in {"match", "no"}
           /\ ByField(req, p, s, Matches(req, s, p), [k \in KidsOf(req, s) |-> Matches(req, k, p)])
  <1>1. PICK M : IsEvaluation(req, p, M)
      BY DEF IsEvaluation
  <1>2. s \in Addresses
      BY DEF WellFounded
  <1>3. PICK none \in SUBSET Addresses : none = {}
      OBVIOUS
  <1>4. ASSUME NEW k \in KidsOf(req, s)
        PROVE  /\ k \in WellFounded(req)
               /\ M[<<k, none \cup {s}>>] \in {"match", "no"}
               /\ M[<<k, none \cup {s}>>] = M[<<k, {}>>]
      <2>1. k \in WellFounded(req) /\ ({k} \cup Inside(req, k)) \cap (none \cup {s}) = {}
          BY <1>3, WellFoundedKid
      <2>2. none \cup {s} \in SUBSET Addresses
          BY <1>2
      <2> QED
          BY <1>1, <2>1, <2>2, SeenMakesNoDifference
  <1>5. \A k : Matches(req, k, p) = M[<<k, {}>>]
      BY <1>1 DEF Matches, IsEvaluation
  <1>6. PICK kids : kids = [k \in KidsOf(req, s) |-> Matches(req, k, p)]
      OBVIOUS
  <1>7. ByField(req, p, s, M[<<s, none>>], kids)
      <2>1. s \notin none
          BY <1>3
      <2>2. \A k \in KidsOf(req, s) : /\ M[<<k, none \cup {s}>>] \in {"match", "no"}
                                     /\ kids[k] = M[<<k, none \cup {s}>>]
          BY <1>4, <1>5, <1>6
      <2> QED
          BY <1>1, <1>2, <2>1, <2>2, EvaluationOfRequirement
  <1>8. M[<<s, none>>] = Matches(req, s, p)
      BY <1>3, <1>5
  <1> QED
      BY <1>4, <1>5, <1>6, <1>7, <1>8

\* The purposes for which each well-founded requirement evaluates to a match.
Matching(req) == [s \in WellFounded(req) |-> {p \in AllPurposes : Matches(req, s, p) = "match"}]

\* They are those that it means, by what its kids mean.
LEMMA MatchingMeans ==
    ASSUME NEW req \in [Addresses -> Requirement], NEW s \in WellFounded(req)
    PROVE  Matching(req)[s] = MeaningBy(req, Matching(req), s)
  <1>0. s \in Addresses
      BY DEF WellFounded
  <1>1. Field(req[s]) = CountingField(req[s])
      BY <1>0, FieldCounts
  <1>2. \A p \in AllPurposes : p \in Matching(req)[s] <=> Matches(req, s, p) = "match"
      BY DEF Matching
  <1>3. \A k \in KidsOf(req, s) : k \in WellFounded(req)
      BY WellFoundedKid
  <1>4. \A k \in KidsOf(req, s) : \A p \in AllPurposes :
            /\ p \in Matching(req)[k] <=> Matches(req, k, p) = "match"
            /\ p \notin Matching(req)[k] <=> Matches(req, k, p) = "no"
      BY <1>3, MatchesOfRequirement DEF Matching
  <1>5. /\ Matching(req)[s] \subseteq AllPurposes
        /\ \A k \in KidsOf(req, s) : Matching(req)[k] \subseteq AllPurposes
      BY <1>3 DEF Matching
  <1> DEFINE kids == {Matching(req)[k] : k \in KidsOf(req, s)}
  <1>6. MeaningBy(req, Matching(req), s) \subseteq AllPurposes
      BY <1>1, <1>5, FieldType DEF MeaningBy, Fields
  <1>7. ASSUME NEW p \in AllPurposes
        PROVE  p \in Matching(req)[s] <=> p \in MeaningBy(req, Matching(req), s)
      <2>1. CASE Field(req[s]) = "name"
          BY <1>1, <1>2, <2>1, MatchesOfRequirement DEF MeaningBy, ByField
      <2>2. CASE Field(req[s]) = "none"
          BY <1>1, <1>2, <2>2, MatchesOfRequirement DEF MeaningBy, ByField
      <2>3. CASE Field(req[s]) = "not"
          <3>1. p \in MeaningBy(req, Matching(req), s)
                  <=> \A k \in KidsOf(req, s) : p \notin Matching(req)[k]
              BY <1>1, <2>3 DEF MeaningBy
          <3>2. p \in Matching(req)[s] <=> \A k \in KidsOf(req, s) : Matches(req, k, p) = "no"
              BY <1>2, <2>3, MatchesOfRequirement DEF ByField
          <3> QED
              BY <1>4, <3>1, <3>2
      <2>4. CASE Field(req[s]) = "and"
          <3>1. p \in MeaningBy(req, Matching(req), s)
                  <=> \A k \in KidsOf(req, s) : p \in Matching(req)[k]
              BY <1>1, <2>4 DEF MeaningBy
          <3>2. p \in Matching(req)[s] <=> \A k \in KidsOf(req, s) : Matches(req, k, p) = "match"
              BY <1>2, <2>4, MatchesOfRequirement DEF ByField
          <3> QED
              BY <1>4, <3>1, <3>2
      <2>5. CASE Field(req[s]) = "or"
          <3>1. p \in MeaningBy(req, Matching(req), s)
                  <=> \E k \in KidsOf(req, s) : p \in Matching(req)[k]
              BY <1>1, <2>5 DEF MeaningBy
          <3>2. p \in Matching(req)[s] <=> \E k \in KidsOf(req, s) : Matches(req, k, p) = "match"
              BY <1>2, <2>5, MatchesOfRequirement DEF ByField
          <3> QED
              BY <1>4, <3>1, <3>2
      <2> QED
          BY <2>1, <2>2, <2>3, <2>4, <2>5, FieldType DEF Fields
  <1> QED
      BY <1>5, <1>6, <1>7

\* What requirements mean depends on what their kids mean only.
LEMMA MeaningByKids ==
    ASSUME NEW req, NEW s, NEW f, NEW g, \A k \in KidsOf(req, s) : f[k] = g[k]
    PROVE  MeaningBy(req, f, s) = MeaningBy(req, g, s)
  <1>1. {f[k] : k \in KidsOf(req, s)} = {g[k] : k \in KidsOf(req, s)}
      OBVIOUS
  <1> QED
      BY <1>1 DEF MeaningBy

\* So the evaluation of a well-founded requirement is right.
LEMMA MatchingIsMeaning ==
    ASSUME NEW req \in [Addresses -> Requirement]
    PROVE  \A s \in WellFounded(req) : Meaning(req, s) = Matching(req)[s]
  <1> DEFINE Means(f) == f = [r \in WellFounded(req) |-> MeaningBy(req, f, r)]
  <1>1. Matching(req) = [r \in WellFounded(req) |-> MeaningBy(req, Matching(req), r)]
      <2>1. Matching(req) = [r \in WellFounded(req) |-> Matching(req)[r]]
          BY DEF Matching
      <2> QED
          BY <2>1, MatchingMeans
  <1>2. PICK meaning : /\ \A r \in WellFounded(req) : meaning[r] = MeaningBy(req, meaning, r)
                       /\ \A r \in WellFounded(req) : Meaning(req, r) = meaning[r]
      <2>1. PICK meaning : /\ meaning = CHOOSE f : Means(f)
                           /\ Means(meaning)
          BY <1>1
      <2>2. \A r \in WellFounded(req) : meaning[r] = MeaningBy(req, meaning, r)
          BY <2>1
      <2>3. \A r \in WellFounded(req) : r # Nil
          BY AddressesAssumption DEF WellFounded
      <2>4. \A r \in WellFounded(req) : Meaning(req, r) = meaning[r]
          BY <2>1, <2>3 DEF Meaning
      <2> QED
          BY <2>2, <2>4
  <1> DEFINE T == {s \in WellFounded(req) : meaning[s] = Matching(req)[s]}
  <1>3. ASSUME NEW s \in WellFounded(req), KidsOf(req, s) \subseteq T PROVE s \in T
      <2>1. MeaningBy(req, meaning, s) = MeaningBy(req, Matching(req), s)
          BY <1>3, MeaningByKids
      <2> QED
          BY <1>2, <2>1, MatchingMeans
  <1>4. WellFounded(req) \subseteq T
      <2> HIDE DEF T
      <2> QED
          BY <1>3, WellFoundedInductive
  <1> QED
      BY <1>2, <1>4

\* A selector that is not circular matches the purposes that it means, and its
\* evaluation does not panic; nil means all.
LEMMA MatchesMeans ==
    ASSUME NEW req \in [Addresses -> Requirement], NEW s \in Addresses \cup {Nil},
           ~Circular(req, s), NEW p \in AllPurposes
    PROVE  /\ Matches(req, s, p) \in {"match", "no"}
           /\ Matches(req, s, p) = "match" <=> p \in Meaning(req, s)
  <1>1. CASE s = Nil
      <2>1. <<s, {}>> \in Calls
          BY <1>1 DEF Calls
      <2>2. Matches(req, s, p) = Result(req, p, requirementMatches(req, p), <<s, {}>>)
          BY <2>1, Evaluation DEF Matches
      <2>3. Matches(req, s, p) = "match"
          BY <1>1, <2>2 DEF Result
      <2> QED
          BY <1>1, <2>3 DEF Meaning
  <1>2. CASE s # Nil
      <2>1. s \in WellFounded(req)
          BY <1>2 DEF WellFounded
      <2> QED
          BY <2>1, MatchesOfRequirement, MatchingIsMeaning DEF Matching, ByField
  <1> QED
      BY <1>1, <1>2

-----------------------------------------------------------------------------
(* The loop over the entries.                                                *)

\* The entry that FirstMatch returns, and what came before it.
LEMMA FirstHit ==
    ASSUME NEW req, NEW entries, NEW p, NEW n \in Nat, DOMAIN entries = 1 .. n
    PROVE  \/ /\ FirstMatch(req, entries, p) = NoEntry
              /\ \A i \in 1 .. n : Matches(req, entries[i], p) = "no"
           \/ \E i \in 1 .. n :
                /\ Matches(req, entries[i], p) # "no"
                /\ \A j \in 1 .. i - 1 : Matches(req, entries[j], p) = "no"
                /\ FirstMatch(req, entries, p)
                     = IF Matches(req, entries[i], p) = "panic" THEN Panicked ELSE i
  <1> DEFINE hits == {i \in DOMAIN entries : Matches(req, entries[i], p) # "no"}
  <1>1. FirstMatch(req, entries, p) =
            IF hits = {} THEN NoEntry
            ELSE IF Matches(req, entries[Min(hits)], p) = "panic" THEN Panicked
            ELSE Min(hits)
      BY DEF FirstMatch
  <1>2. CASE hits = {}
      BY <1>1, <1>2
  <1>3. CASE hits # {}
      <2>1. hits \in SUBSET Nat
          OBVIOUS
      <2>2. PICK i \in hits : i = Min(hits) /\ \A k \in hits : i <= k
          BY <1>3, <2>1, LeastMember
      <2>3. i \in 1 .. n /\ Matches(req, entries[i], p) # "no"
          OBVIOUS
      <2>4. ASSUME NEW j \in 1 .. i - 1 PROVE j \in 1 .. n /\ j \notin hits
          <3>1. j \in 1 .. n /\ ~(i <= j)
              BY <2>3
          <3> HIDE DEF hits
          <3> QED
              BY <2>2, <3>1
      <2>5. \A j \in 1 .. i - 1 : Matches(req, entries[j], p) = "no"
          BY <2>4
      <2>6. FirstMatch(req, entries, p)
                = IF Matches(req, entries[i], p) = "panic" THEN Panicked ELSE i
          BY <1>1, <1>3, <2>2
      <2> HIDE DEF hits
      <2> QED
          BY <2>3, <2>5, <2>6
  <1> QED
      BY <1>2, <1>3

\* The loop of reconcile over externalDNSForPurposes chooses as documented, if no
\* entry is circular.
THEOREM FirstMatchIsFirstMeant ==
    ASSUME NEW req \in [Addresses -> Requirement], NEW entries \in Seq(Addresses \cup {Nil}),
           NEW p \in AllPurposes, \A i \in DOMAIN entries : ~Circular(req, entries[i])
    PROVE  IsFirstMeant(req, entries, p, FirstMatch(req, entries, p))
  <1>1. PICK n \in Nat : DOMAIN entries = 1 .. n
      OBVIOUS
  <1>2. \A i \in 1 .. n : entries[i] \in Addresses \cup {Nil}
      BY <1>1
  <1>3. \A i \in 1 .. n : /\ Matches(req, entries[i], p) \in {"match", "no"}
                          /\ Matches(req, entries[i], p) = "match"
                               <=> p \in Meaning(req, entries[i])
      BY <1>1, <1>2, MatchesMeans
  <1>4. PICK entry : entry = FirstMatch(req, entries, p)
      OBVIOUS
  <1>5. CASE entry = NoEntry /\ \A i \in 1 .. n : Matches(req, entries[i], p) = "no"
      BY <1>1, <1>3, <1>4, <1>5 DEF IsFirstMeant
  <1>6. ASSUME NEW i \in 1 .. n,
               Matches(req, entries[i], p) # "no",
               \A j \in 1 .. i - 1 : Matches(req, entries[j], p) = "no",
               entry = IF Matches(req, entries[i], p) = "panic" THEN Panicked ELSE i
        PROVE  IsFirstMeant(req, entries, p, entry)
      <2>1. Matches(req, entries[i], p) = "match" /\ entry = i
          BY <1>3, <1>6
      <2>2. \A j \in 1 .. i - 1 : j \in 1 .. n
          OBVIOUS
      <2>3. \A j \in 1 .. i - 1 : p \notin Meaning(req, entries[j])
          BY <1>3, <1>6, <2>2
      <2>4. p \in Meaning(req, entries[i])
          BY <1>3, <2>1
      <2> QED
          BY <1>1, <2>1, <2>3, <2>4 DEF IsFirstMeant
  <1> QED
      BY <1>1, <1>4, <1>5, <1>6, FirstHit

=============================================================================
