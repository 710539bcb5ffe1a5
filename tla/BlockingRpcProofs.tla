------------------------- MODULE BlockingRpcProofs -------------------------
(***************************************************************************)
(* Proofs about BlockingRpc for every service, mix of policies, number of  *)
(* calls and queue capacity: proxy and dispatcher number and type the      *)
(* members alike, every response is the one its call reads, and a call     *)
(* through the proxy is a call of the declared function.                   *)
(***************************************************************************)
EXTENDS BlockingRpc, SequenceTheorems, FiniteSetTheorems, WellFoundedInduction, TLAPS

-----------------------------------------------------------------------------
(* The loop over the members.                                              *)

LEMMA LeastOf ==
  ASSUME NEW S \in SUBSET Nat, S # {}
  PROVE  \E m \in S : \A n \in S : m <= n
<1>1. PICK m \in S : \A n \in S : <<n, m>> \notin OpToRel(<, Nat)
  BY WFMin, NatLessThanWellFounded, Zenon
<1>2. \A n \in S : ~(n < m)
  BY <1>1 DEF OpToRel
<1>3. QED BY <1>2

Start == [index |-> 0, args |-> <<>>]

(* The rounds can be run one after the other: the recursion has a solution. *)
LEMMA VisitedRounds ==
  ASSUME NEW side, NEW members, NEW owners, Len(members) \in Nat
  PROVE  LET v == Visited(side, members, owners) IN
         /\ v[0] = Start
         /\ \A n \in 1..Len(members) : v[n] = Visit(side, v[n - 1], owners, members, n)
<1> DEFINE N == Len(members)
           Round(state, n) == Visit(side, state, owners, members, n)
           Upto(n, f) == f = [k \in 0..n |-> IF k = 0 THEN Start ELSE Round(f[k - 1], k)]
           S == {n \in 0..N : ~\E f : Upto(n, f)}
<1> HIDE DEF Round
<1>1. \A n \in 0..N : \E f : Upto(n, f)
  <2>1. SUFFICES ASSUME S # {} PROVE FALSE OBVIOUS
  <2>2. PICK m \in S : \A n \in S : m <= n
    <3>1. S \in SUBSET Nat OBVIOUS
    <3> HIDE DEF S
    <3>2. QED BY <2>1, <3>1, LeastOf
  <2>3. CASE m = 0
    <3>1. Upto(0, [k \in 0..0 |-> Start]) OBVIOUS
    <3>2. QED BY <2>2, <2>3, <3>1
  <2>4. CASE m # 0
    <3>1. m \in Nat /\ m - 1 \in 0..N /\ m - 1 \notin S BY <2>2, <2>4
    <3>2. PICK f : Upto(m - 1, f) BY <3>1
    <3> DEFINE g == [k \in 0..m |-> IF k = m THEN Round(f[m - 1], m) ELSE f[k]]
    <3>3. \A k \in 0..m : g[k] = IF k = 0 THEN Start ELSE Round(g[k - 1], k)
      <4>1. SUFFICES ASSUME NEW k \in 0..m
                     PROVE  g[k] = IF k = 0 THEN Start ELSE Round(g[k - 1], k)
        OBVIOUS
      <4>2. CASE k = m
        <5>1. m - 1 \in 0..m /\ m - 1 # m BY <3>1, <2>4
        <5>2. g[m - 1] = f[m - 1] /\ g[m] = Round(f[m - 1], m) BY <3>1, <5>1
        <5>3. QED BY <2>4, <4>2, <5>2
      <4>3. CASE k # m
        <5>1. k \in 0..m - 1 BY <3>1, <4>3
        <5>2. f[k] = IF k = 0 THEN Start ELSE Round(f[k - 1], k) BY <3>2, <5>1
        <5>3. g[k] = f[k] BY <4>3
        <5>4. k # 0 => g[k - 1] = f[k - 1]
          <6>1. k # 0 => k - 1 \in 0..m /\ k - 1 # m BY <3>1, <5>1
          <6>2. QED BY <6>1
        <5>5. QED BY <5>2, <5>3, <5>4
      <4>4. QED BY <4>2, <4>3
    <3>4. Upto(m, g) BY <3>3
    <3>5. QED BY <2>2, <3>4
  <2>5. QED BY <2>3, <2>4
<1> DEFINE v == Visited(side, members, owners)
<1>2. v = CHOOSE f : Upto(N, f) BY Zenon DEF Visited, Round, Start
<1>3. Upto(N, v)
  <2>1. \E f : Upto(N, f) BY <1>1
  <2> HIDE DEF Upto, v
  <2>2. QED BY <1>2, <2>1
<1> HIDE DEF v
<1>4. v[0] = Start BY <1>3
<1>5. \A n \in 1..N : v[n] = Round(v[n - 1], n) BY <1>3
<1>6. QED BY <1>4, <1>5 DEF v, Round

-----------------------------------------------------------------------------
(* The two sides number the members alike.                                 *)

CodeType ==
  /\ service \in [1..ServiceSize -> Declarations]
  /\ \E n \in 1..MaxPolicies : policies \in [1..n -> Policies]

Sides == {"proxy", "dispatcher"}
State == [index : Nat, args : Seq(Members)]

Remote(i) == {k \in DOMAIN policies : is_remote(policies[k], service[i])}

(* The first policy that finds member i remote. *)
First(i) == CHOOSE k \in DOMAIN policies :
              /\ is_remote(policies[k], service[i])
              /\ \A j \in 1..(k - 1) : ~is_remote(policies[j], service[i])

LEMMA FirstRemote ==
  ASSUME CodeType, NEW i, Remote(i) # {}
  PROVE  /\ First(i) \in Remote(i)
         /\ \A j \in Remote(i) : First(i) <= j
         /\ First(i) \in Nat /\ policies[First(i)] \in Policies
<1>1. PICK n \in 1..MaxPolicies : policies \in [1..n -> Policies] BY DEF CodeType
<1>2. n \in Nat /\ DOMAIN policies = 1..n BY <1>1, RpcAssumption
<1>3. PICK m \in Remote(i) : \A j \in Remote(i) : m <= j
  <2>1. Remote(i) \in SUBSET Nat BY <1>2 DEF Remote
  <2>2. QED BY <2>1, LeastOf
<1>4. \A j \in 1..(m - 1) : ~is_remote(policies[j], service[i])
  <2>1. SUFFICES ASSUME NEW j \in 1..(m - 1), is_remote(policies[j], service[i]) PROVE FALSE
    OBVIOUS
  <2>2. m \in 1..n BY <1>2, <1>3 DEF Remote
  <2>3. j \in 1..n BY <1>2, <2>2
  <2>4. j \in Remote(i) BY <1>2, <2>1, <2>3 DEF Remote
  <2>5. QED BY <1>3, <2>2, <2>4
<1>5. /\ First(i) \in DOMAIN policies /\ is_remote(policies[First(i)], service[i])
      /\ \A j \in 1..(First(i) - 1) : ~is_remote(policies[j], service[i])
  BY <1>3, <1>4 DEF First, Remote
<1>6. ASSUME NEW j \in Remote(i) PROVE First(i) <= j
  <2>1. j \in 1..n /\ is_remote(policies[j], service[i]) BY <1>2 DEF Remote
  <2>2. j \notin 1..(First(i) - 1) BY <1>5, <2>1
  <2>3. QED BY <1>2, <1>5, <2>1, <2>2
<1>7. QED BY <1>1, <1>2, <1>5, <1>6 DEF Remote

(* A policy makes something of every member it finds remote. *)
LEMMA Made ==
  ASSUME CodeType, NEW side \in Sides, NEW policy \in Policies, NEW index \in Nat,
         NEW i \in 1..ServiceSize, is_remote(policy, service[i])
  PROVE  make_member(side, policy, index, i, service[i]) \in Members
<1> DEFINE m == service[i]
<1>1. m \in Declarations BY DEF CodeType
<1>2. m.handler \in {NoHandler, VoidHandler, ValueHandler} /\ m.value \in BOOLEAN
  BY <1>1, RpcAssumption
<1>3. has_handler(m) => m.handler \in Functions BY <1>2 DEF has_handler, Functions
<1>4. i \in Functions /\ handler_value(m) \in BOOLEAN /\ return_of(m) \in BOOLEAN
  BY <1>2 DEF Functions, handler_value, return_of
<1>5. policy = "Annotated" /\ ~has_handler(m) => m.kind = "function"
  BY DEF is_remote
<1> HIDE DEF m
<1>6. make_proxy_member(policy, index, i, m) \in Members
  BY <1>2, <1>3, <1>4, <1>5 DEF make_proxy_member, Policies, Members, Kinds
<1>7. make_dispatch_member(policy, index, i, m) \in Members
  BY <1>2, <1>3, <1>4, <1>5 DEF make_dispatch_member, Policies, Members, Kinds
<1>8. QED BY <1>6, <1>7 DEF make_member, Sides, m

(* So the first of them takes the member, and one index. *)
LEMMA Offered ==
  ASSUME CodeType, NEW side \in Sides, NEW state \in State, NEW i \in 1..ServiceSize
  PROVE  /\ Remote(i) = {} => Offer(side, state, policies, i, service[i]) = state
         /\ Remote(i) # {} =>
              Offer(side, state, policies, i, service[i]) =
                [index |-> state.index + 1,
                 args  |-> Append(state.args, make_member(side, policies[First(i)],
                                                          state.index, i, service[i]))]
<1> DEFINE m == service[i]
           before(k) == Cardinality({j \in Remote(i) : j < k})
           made(k) == make_member(side, policies[k], state.index + before(k), i, m)
           makers == {k \in Remote(i) : made(k) # NoMember}
           owner == CHOOSE k \in makers : \A j \in makers : k <= j
<1>1. state.index \in Nat BY DEF State
<1>2. Offer(side, state, policies, i, m) =
        IF makers = {} THEN [state EXCEPT !.index = @ + Cardinality(Remote(i))]
        ELSE [index |-> state.index + before(owner) + 1,
              args  |-> Append(state.args, made(owner))]
  BY DEF Offer, Remote
<1>3. CASE Remote(i) = {}
  <2>1. makers = {} /\ Cardinality(Remote(i)) = 0 BY <1>3, FS_EmptySet
  <2>2. [state EXCEPT !.index = @ + 0] = state BY <1>1 DEF State
  <2> HIDE DEF makers
  <2>3. QED BY <1>2, <1>3, <2>1, <2>2
<1>4. CASE Remote(i) # {}
  <2> DEFINE k == First(i)
  <2>1. /\ k \in Remote(i) /\ k \in Nat /\ policies[k] \in Policies
        /\ \A j \in Remote(i) : k <= j
    BY <1>4, FirstRemote
  <2>2. {j \in Remote(i) : j < k} = {}
    <3>1. Remote(i) \in SUBSET Nat
      BY RpcAssumption DEF Remote, CodeType
    <3> HIDE DEF k
    <3>2. QED BY <2>1, <3>1
  <2>3. before(k) = 0 BY <2>2, FS_EmptySet
  <2> HIDE DEF k, before
  <2>4. is_remote(policies[k], m) BY <2>1 DEF Remote
  <2>5. made(k) = make_member(side, policies[k], state.index, i, m)
    BY <1>1, <2>3
  <2>6. made(k) \in Members BY <1>1, <2>1, <2>4, <2>5, Made
  <2>7. k \in makers /\ \A j \in makers : k <= j
    BY <2>1, <2>6, RpcAssumption
  <2>8. owner = k
    <3>1. owner \in makers /\ \A j \in makers : owner <= j BY <2>7
    <3>2. owner <= k /\ k <= owner BY <2>7, <3>1
    <3>3. owner \in Nat BY <3>1, RpcAssumption DEF Remote, CodeType
    <3> HIDE DEF owner
    <3>4. QED BY <2>1, <3>2, <3>3
  <2>9. makers # {} BY <2>7
  <2> HIDE DEF makers, owner, made, m
  <2>10. QED BY <1>1, <1>2, <1>4, <2>3, <2>5, <2>8, <2>9 DEF k, m
<1>5. QED BY <1>3, <1>4

LEMMA MadeAlike ==
  ASSUME CodeType, NEW i \in named_members_of(service), Remote(i) # {}, NEW index \in Nat
  PROVE  LET policy == policies[First(i)] IN
         Alike(make_member("proxy", policy, index, i, service[i]),
               make_member("dispatcher", policy, index, i, service[i]), index + 1)
<1> DEFINE m == service[i]
           policy == policies[First(i)]
           p == make_proxy_member(policy, index, i, m)
           d == make_dispatch_member(policy, index, i, m)
           handled == policy = "Annotated" /\ has_handler(m)
<1>1. First(i) \in Remote(i) /\ policy \in Policies BY FirstRemote
<1>2. is_remote(policy, m) BY <1>1 DEF Remote
<1>3. i \in DOMAIN service /\ m.named BY DEF named_members_of
<1>4. Owner(m) = policy BY DEF Owner, First
<1>5. i \in DOMAIN Interface BY <1>1, <1>3 DEF Interface, Remote
<1>6. Interface[i] = [function |-> IF handled THEN m.handler ELSE i,
                      packs    |-> handled,
                      value    |-> IF handled THEN handler_value(m) ELSE m.value]
  BY <1>4, <1>5 DEF Interface
<1>7. policy = "Annotated" /\ ~has_handler(m) => m.kind = "function"
  BY <1>2 DEF is_remote
<1>8. index + 1 - 1 = index OBVIOUS
<1> HIDE DEF m, policy
<1>9. /\ p.index = index /\ d.index = index /\ p.fnc = i
      /\ p.kind = "CustomProxy" <=> handled
      /\ p.value = IF handled THEN handler_value(m) ELSE m.value
      /\ d.value = IF handled THEN handler_value(m) ELSE m.value
      /\ d.kind = "FunctionTemplateDispatcher" =>
           p.kind = "FunctionTemplateProxy" /\ ~handled
      /\ d.kind # "FunctionTemplateDispatcher" =>
           d.fnc = IF handled THEN m.handler ELSE i
  <2>1. CASE policy = "DefaultPolicy"
    BY <2>1 DEF make_proxy_member, make_dispatch_member
  <2>2. CASE policy = "InProcess"
    BY <2>2 DEF make_proxy_member, make_dispatch_member
  <2>3. CASE policy = "Annotated" /\ has_handler(m)
    BY <2>3 DEF make_proxy_member, make_dispatch_member, return_of
  <2>4. CASE policy = "Annotated" /\ ~has_handler(m)
    BY <1>7, <2>4 DEF make_proxy_member, make_dispatch_member, return_of
  <2>5. QED BY <1>1, <2>1, <2>2, <2>3, <2>4 DEF Policies
<1> HIDE DEF p, d, handled
<1>10. Alike(p, d, index + 1) BY <1>5, <1>6, <1>8, <1>9 DEF Alike
<1>11. QED BY <1>10 DEF p, d, make_member, m, policy

(* After each round both sides have taken as many indices, and made as many  *)
(* members, which agree.                                                     *)
Together(p, d) ==
  /\ p \in State /\ d \in State
  /\ p.index = Len(p.args) /\ d.index = Len(d.args) /\ p.index = d.index
  /\ \A i \in 1..Len(p.args) : Alike(p.args[i], d.args[i], i)

LEMMA RoundTogether ==
  ASSUME CodeType, NEW i \in 1..ServiceSize, NEW p, NEW d, Together(p, d)
  PROVE  Together(Visit("proxy", p, policies, service, i),
                  Visit("dispatcher", d, policies, service, i))
<1> DEFINE p1 == Visit("proxy", p, policies, service, i)
           d1 == Visit("dispatcher", d, policies, service, i)
<1>1. p \in State /\ d \in State /\ "proxy" \in Sides /\ "dispatcher" \in Sides
  BY DEF Together, Sides
<1>2. CASE i \notin named_members_of(service) \/ Remote(i) = {}
  BY <1>1, <1>2, Offered DEF Visit
<1>3. CASE i \in named_members_of(service) /\ Remote(i) # {}
  <2> DEFINE policy == policies[First(i)]
             n == p.index
             pm == make_member("proxy", policy, n, i, service[i])
             dm == make_member("dispatcher", policy, n, i, service[i])
  <2>1. /\ n \in Nat /\ d.index = n /\ Len(p.args) = n /\ Len(d.args) = n
        /\ p.args \in Seq(Members) /\ d.args \in Seq(Members)
    BY DEF Together, State
  <2>2. /\ p1 = [index |-> n + 1, args |-> Append(p.args, pm)]
        /\ d1 = [index |-> n + 1, args |-> Append(d.args, dm)]
    BY <1>1, <1>3, <2>1, Offered DEF Visit
  <2>3. policy \in Policies /\ is_remote(policy, service[i])
    BY <1>3, FirstRemote DEF Remote
  <2>4. pm \in Members /\ dm \in Members BY <1>1, <2>1, <2>3, Made
  <2>5. Alike(pm, dm, n + 1) BY <1>3, <2>1, MadeAlike
  <2> HIDE DEF pm, dm, n, p1, d1
  <2>6. /\ p1.args \in Seq(Members) /\ Len(p1.args) = n + 1 /\ p1.args[n + 1] = pm
        /\ d1.args \in Seq(Members) /\ Len(d1.args) = n + 1 /\ d1.args[n + 1] = dm
        /\ \A k \in 1..n : p1.args[k] = p.args[k] /\ d1.args[k] = d.args[k]
    BY <2>1, <2>2, <2>4, AppendProperties
  <2>7. p1 \in State /\ d1 \in State /\ p1.index = n + 1 /\ d1.index = n + 1
    BY <2>1, <2>2, <2>6 DEF State
  <2>8. \A k \in 1..n : Alike(p.args[k], d.args[k], k) BY <2>1 DEF Together
  <2>9. \A k \in 1..n + 1 : k \in 1..n \/ k = n + 1 BY <2>1
  <2>10. \A k \in 1..n + 1 : Alike(p1.args[k], d1.args[k], k)
    BY <2>5, <2>6, <2>8, <2>9
  <2>11. Together(p1, d1) BY <2>6, <2>7, <2>10 DEF Together
  <2>12. QED BY <2>11 DEF p1, d1
<1>4. QED BY <1>2, <1>3

LEMMA NumberedTogether ==
  ASSUME CodeType
  PROVE  LET p == make_proxy(service, policies)
             d == make_dispatcher(service, policies)
         IN /\ p \in Seq(Members) /\ d \in Seq(Members) /\ Len(p) = Len(d)
            /\ \A i \in 1..Len(p) : Alike(p[i], d[i], i)
<1> DEFINE N == Len(service)
           p == Visited("proxy", service, policies)
           d == Visited("dispatcher", service, policies)
           S == {n \in 0..N : ~Together(p[n], d[n])}
<1>1. N = ServiceSize /\ N \in Nat
  BY RpcAssumption, LenProperties DEF CodeType
<1>2. /\ p[0] = Start /\ d[0] = Start
      /\ \A n \in 1..N : p[n] = Visit("proxy", p[n - 1], policies, service, n)
      /\ \A n \in 1..N : d[n] = Visit("dispatcher", d[n - 1], policies, service, n)
  BY <1>1, VisitedRounds
<1> HIDE DEF p, d, N
<1>3. Together(Start, Start)
  <2>1. <<>> \in Seq(Members) /\ Len(<<>>) = 0 BY EmptySeq
  <2>2. QED BY <2>1 DEF Together, Start, State
<1>4. S = {}
  <2>1. SUFFICES ASSUME S # {} PROVE FALSE OBVIOUS
  <2>2. PICK m \in S : \A n \in S : m <= n
    <3>1. S \in SUBSET Nat BY <1>1
    <3> HIDE DEF S
    <3>2. QED BY <2>1, <3>1, LeastOf
  <2>3. m # 0 BY <1>2, <1>3, <2>2
  <2>4. m \in 1..N /\ m - 1 \in 0..N /\ m - 1 \notin S BY <1>1, <2>2, <2>3
  <2>5. Together(p[m - 1], d[m - 1]) BY <2>4
  <2>6. Together(p[m], d[m]) BY <1>1, <1>2, <2>4, <2>5, RoundTogether
  <2>7. QED BY <2>2, <2>6
<1>5. Together(p[N], d[N]) BY <1>1, <1>4
<1>6. p[N].args = make_proxy(service, policies) /\ d[N].args = make_dispatcher(service, policies)
  BY DEF make_proxy, make_dispatcher, Numbered, p, d, N
<1>7. /\ p[N].args \in Seq(Members) /\ d[N].args \in Seq(Members)
      /\ Len(p[N].args) = Len(d[N].args)
      /\ \A i \in 1..Len(p[N].args) : Alike(p[N].args[i], d[N].args[i], i)
  BY <1>5 DEF Together, State
<1>8. QED BY <1>6, <1>7

LEMMA NumbersAtStart == Init => NumberingAgrees /\ CodeType
<1> SUFFICES ASSUME Init PROVE NumberingAgrees /\ CodeType OBVIOUS
<1>1. CodeType BY DEF Init, CodeType
<1>2. /\ proxy \in Seq(Members) /\ dispatcher \in Seq(Members) /\ Len(proxy) = Len(dispatcher)
      /\ \A i \in 1..Len(proxy) : Alike(proxy[i], dispatcher[i], i)
  BY <1>1, NumberedTogether DEF Init
<1>3. DOMAIN proxy = 1..Len(proxy) BY <1>2, LenProperties
<1>4. NumberingAgrees BY <1>2, <1>3 DEF NumberingAgrees
<1>5. QED BY <1>1, <1>4

-----------------------------------------------------------------------------
(* The inductive invariant: where the one call there can be has got to.    *)

CodeInv == NumberingAgrees /\ service \in [1..ServiceSize -> Declarations]

HistoryInv ==
  /\ executed \in Seq(Runs)
  /\ returned \in Seq(Runs \cup {Void})
  /\ killed \in BOOLEAN

Asked  == request(proxy[call].index, payload(proxy[call]))
Answer == make_response(proxy[call].index,
                        IF proxy[call].value THEN executed[Len(executed)] ELSE Void)

InCall == call \in DOMAIN proxy
Before == Len(executed) = Len(returned)
After  == Len(executed) = Len(returned) + 1

Idle ==
  /\ call = NoCall /\ out = <<>> /\ message = NoMessage /\ Before
  /\ \/ server = "recv" /\ ~killed /\ in = <<>>
     \/ server = "recv" /\ killed /\ in = <<Goodbye>>
     \/ server = "ended" /\ killed /\ in = <<>>

\* A request behind the farewell is never read.
Waiting ==
  /\ InCall /\ out = <<>> /\ message = NoMessage /\ Before /\ Len(returned) < MaxCalls
  /\ \/ server = "recv" /\ ~killed /\ in = <<Asked>>
     \/ server = "recv" /\ killed /\ in = <<Goodbye, Asked>>
     \/ server = "ended" /\ killed /\ in = <<Asked>>

Handling ==
  /\ InCall /\ in = <<>> /\ out = <<>> /\ Before /\ Len(returned) < MaxCalls /\ ~killed
  /\ server = "handle" /\ message = Asked

Answering ==
  /\ InCall /\ in = <<>> /\ out = <<>> /\ After /\ ~killed
  /\ server = "reply" /\ message = Answer

Answered ==
  /\ InCall /\ in = <<>> /\ out = <<Answer>> /\ After /\ ~killed
  /\ server = "recv" /\ message = NoMessage

CallInv == Idle \/ Waiting \/ Handling \/ Answering \/ Answered

IInv == CodeInv /\ HistoryInv /\ CallInv

-----------------------------------------------------------------------------
(* What the members are.                                                   *)

LEMMA InterfaceType ==
  ASSUME CodeInv, NEW k \in DOMAIN Interface
  PROVE  /\ k \in 1..ServiceSize
         /\ Interface[k].function \in Functions
<1> DEFINE m == service[k]
           handled == Owner(m) = "Annotated" /\ has_handler(m)
<1>1. k \in 1..ServiceSize /\ m \in Declarations BY DEF Interface, CodeInv
<1>2. Interface[k].function = IF handled THEN m.handler ELSE k BY DEF Interface
<1>3. handled => m.handler \in {VoidHandler, ValueHandler}
  BY <1>1, RpcAssumption DEF has_handler
<1> HIDE DEF handled, m
<1>4. QED BY <1>1, <1>2, <1>3 DEF Functions

LEMMA MemberFacts ==
  ASSUME CodeInv, NEW i \in DOMAIN proxy
  PROVE  /\ i \in Nat /\ i >= 1
         /\ proxy[i].index = i - 1 /\ dispatcher[i].index = i - 1
         /\ proxy[i].fnc \in DOMAIN Interface /\ proxy[i].fnc \in 1..ServiceSize
         /\ proxy[i].value = dispatcher[i].value
         /\ proxy[i].value = Interface[proxy[i].fnc].value
         /\ Interface[proxy[i].fnc].packs <=> proxy[i].kind = "CustomProxy"
         /\ IF dispatcher[i].kind = "FunctionTemplateDispatcher"
            THEN /\ proxy[i].kind = "FunctionTemplateProxy"
                 /\ Interface[proxy[i].fnc].function = proxy[i].fnc
            ELSE Interface[proxy[i].fnc].function = dispatcher[i].fnc
<1>1. i \in 1..Len(dispatcher) BY DEF CodeInv, NumberingAgrees
<1>2. proxy[i].fnc \in DOMAIN Interface BY DEF CodeInv, NumberingAgrees, Alike
<1>3. Alike(proxy[i], dispatcher[i], i) BY DEF CodeInv, NumberingAgrees
<1>4. QED BY <1>1, <1>2, <1>3, InterfaceType DEF Alike

LEMMA Counts ==
  ASSUME HistoryInv
  PROVE  Len(executed) \in Nat /\ Len(returned) \in Nat
BY LenProperties DEF HistoryInv

LEMMA CodeKept ==
  ASSUME CodeInv, UNCHANGED code
  PROVE  CodeInv' /\ Interface' = Interface
<1>1. UNCHANGED <<service, policies, proxy, dispatcher>> BY DEF code
<1>2. Interface' = Interface BY <1>1 DEF Interface, Owner
<1>3. NumberingAgrees' BY <1>1, <1>2 DEF CodeInv, NumberingAgrees, Alike
<1>4. QED BY <1>1, <1>2, <1>3 DEF CodeInv

LEMMA AskedType ==
  ASSUME CodeInv, HistoryInv, InCall, Len(returned) < MaxCalls
  PROVE  /\ Asked \in Requests
         /\ Asked.size = 1 /\ Asked.index = call - 1
         /\ Asked.data.args = Len(returned) + 1
<1>1. /\ proxy[call].index = call - 1 /\ call - 1 \in Nat
      /\ proxy[call].fnc \in Positions
  BY MemberFacts DEF InCall, Positions
<1>2. Len(returned) + 1 \in 1..MaxCalls BY Counts, RpcAssumption
<1>3. NoMember \in Positions BY DEF Positions
<1>4. payload(proxy[call]) \in [args : 1..MaxCalls, packer : Positions, pointer : Positions]
  BY <1>1, <1>2, <1>3 DEF payload
<1>5. QED BY <1>1, <1>4 DEF Asked, request, payload, Requests

LEMMA LastRun ==
  ASSUME HistoryInv, After
  PROVE  executed[Len(executed)] \in Runs
<1>1. Len(executed) \in 1..Len(executed) BY Counts DEF After
<1>2. QED BY <1>1 DEF HistoryInv

LEMMA AnswerType ==
  ASSUME CodeInv, HistoryInv, InCall, After
  PROVE  /\ Answer \in Responses
         /\ Answer.index = proxy[call].index
         /\ proxy[call].value <=> Answer.data # Void
<1>1. proxy[call].index \in Nat BY MemberFacts DEF InCall
<1>2. executed[Len(executed)] \in Runs /\ executed[Len(executed)] # Void
  BY LastRun, RpcAssumption
<1>3. QED BY <1>1, <1>2 DEF Answer, make_response, Responses

-----------------------------------------------------------------------------
(* The steps, each with what it is to the caller of a remote object.       *)

AbstractCall ==
  IF call = NoCall THEN NoCall
  ELSE [member |-> proxy[call].fnc, ran |-> Len(executed) > Len(returned)]

Abstractly == [Object!Next]_(Object!vars)

LEMMA CallFacts ==
  ASSUME CodeInv, HistoryInv, InCall
  PROVE  /\ call # NoCall
         /\ AbstractCall # NoCall
         /\ AbstractCall = [member |-> proxy[call].fnc, ran |-> Len(executed) > Len(returned)]
         /\ Before => AbstractCall = [member |-> proxy[call].fnc, ran |-> FALSE]
         /\ After => AbstractCall = [member |-> proxy[call].fnc, ran |-> TRUE]
<1>1. call \in Nat /\ proxy[call].fnc \in 1..ServiceSize BY MemberFacts DEF InCall
<1>2. call # NoCall BY <1>1, RpcAssumption
<1>3. AbstractCall = [member |-> proxy[call].fnc, ran |-> Len(executed) > Len(returned)]
  BY <1>2 DEF AbstractCall
<1>4. AbstractCall \in [member : 1..ServiceSize, ran : BOOLEAN] BY <1>1, <1>3
<1>5. Before => ~(Len(executed) > Len(returned)) BY Counts DEF Before
<1>6. After => Len(executed) > Len(returned) BY Counts DEF After
<1>7. QED BY <1>2, <1>3, <1>4, <1>5, <1>6, RpcAssumption

LEMMA HasRun ==
  ASSUME NEW k, NEW b, NEW c
  PROVE  [[member |-> k, ran |-> b] EXCEPT !.ran = c] = [member |-> k, ran |-> c]
OBVIOUS

LEMMA NotRun ==
  ASSUME NEW k, NEW b \in BOOLEAN, ~b
  PROVE  [member |-> k, ran |-> b] = [member |-> k, ran |-> FALSE]
OBVIOUS

LEMMA ShortQueues ==
  ASSUME NEW x, NEW y
  PROVE  Append(<<>>, x) = <<x>> /\ Append(<<y>>, x) = <<y, x>>
<1> DEFINE S == {x, y}
<1>1. x \in S /\ y \in S OBVIOUS
<1> HIDE DEF S
<1>2. <<y>> \in Seq(S) /\ Len(<<y>>) = 1 /\ <<y>>[1] = y BY <1>1
<1>3. /\ <<y, x>> \in Seq(S) /\ Len(<<y, x>>) = 2
      /\ <<y, x>>[1] = y /\ <<y, x>>[2] = x
  BY <1>1
<1>4. /\ Append(<<y>>, x) \in Seq(S) /\ Len(Append(<<y>>, x)) = 2
      /\ Append(<<y>>, x)[1] = y /\ Append(<<y>>, x)[2] = x
  BY <1>1, <1>2, AppendProperties
<1>5. \A i \in 1..2 : i = 1 \/ i = 2 OBVIOUS
<1>6. Append(<<>>, x) = <<x>> OBVIOUS
<1>7. QED BY <1>3, <1>4, <1>5, <1>6, SeqEqual

LEMMA ListsOf ==
  ASSUME NEW S
  PROVE  /\ <<>> \in Seq(S)
         /\ \A x \in S : <<x>> \in Seq(S)
         /\ \A x, y \in S : <<y, x>> \in Seq(S)
OBVIOUS

\* nothing a caller could see
LEMMA Unseen ==
  ASSUME CodeInv, UNCHANGED <<code, call, executed, returned, killed>>
  PROVE  Abstractly
<1>1. Interface' = Interface BY CodeKept
<1>2. UNCHANGED <<proxy, call, executed, returned, killed>> BY DEF code
<1>3. UNCHANGED Object!vars BY <1>1, <1>2 DEF Object!vars
<1>4. QED BY <1>3 DEF Abstractly

LEMMA CallStep ==
  ASSUME IInv, NEW i \in DOMAIN proxy, Call(i)
  PROVE  IInv' /\ Abstractly
<1>1. /\ call = NoCall /\ Len(returned) < MaxCalls /\ call' = i
      /\ in' = Append(in, request(proxy[i].index, payload(proxy[i])))
      /\ UNCHANGED <<code, proxy, out, server, message, executed, returned, killed>>
  BY DEF Call, results, code
<1>2. CodeInv' /\ Interface' = Interface BY <1>1, CodeKept DEF IInv
<1>3. HistoryInv' BY <1>1 DEF IInv, HistoryInv
<1>4. Idle
  BY <1>1, CallFacts DEF IInv, CallInv, Waiting, Handling, Answering, Answered
<1>5. InCall' /\ Before' /\ (Len(returned) < MaxCalls)'
  BY <1>1, <1>4 DEF Idle, InCall, Before
<1>6. Asked' = request(proxy[i].index, payload(proxy[i]))
  BY <1>1 DEF Asked, request, payload
<1>7. Waiting'
  <2>1. in' = Append(in, Asked') BY <1>1, <1>6
  <2>2. /\ in = <<>> => in' = <<Asked'>>
        /\ in = <<Goodbye>> => in' = <<Goodbye, Asked'>>
    BY <2>1, ShortQueues
  <2>3. QED BY <1>1, <1>4, <1>5, <2>2 DEF Idle, Waiting
<1>8. AbstractCall' = [member |-> proxy[i].fnc, ran |-> FALSE]
  <2>1. call' # NoCall /\ ~(Len(executed') > Len(returned'))
    <3>1. i \in Nat BY MemberFacts DEF IInv
    <3>2. QED BY <1>1, <1>4, <3>1, Counts, RpcAssumption DEF IInv, Idle, Before
  <2> DEFINE has_run == Len(executed') > Len(returned')
  <2>2. AbstractCall' = [member |-> proxy[i].fnc, ran |-> has_run]
    BY <1>1, <2>1 DEF AbstractCall
  <2>3. has_run \in BOOLEAN /\ ~has_run BY <2>1
  <2> HIDE DEF has_run
  <2>4. QED BY <2>2, <2>3, NotRun
<1>9. Object!Begin(proxy[i].fnc)
  BY <1>1, <1>2, <1>8 DEF Object!Begin, AbstractCall
<1>10. proxy[i].fnc \in DOMAIN Interface BY MemberFacts DEF IInv
<1>11. Abstractly BY <1>9, <1>10 DEF Abstractly, Object!Next
<1>12. QED BY <1>2, <1>3, <1>7, <1>11 DEF IInv, CallInv

LEMMA ReturnStep ==
  ASSUME IInv, Return
  PROVE  IInv' /\ Abstractly
<1>1. /\ call # NoCall /\ out # <<>> /\ out' = Tail(out) /\ call' = NoCall
      /\ returned' = Append(returned, IF proxy[call].value THEN Head(out).data ELSE Void)
      /\ UNCHANGED <<code, proxy, in, server, message, executed, killed>>
  BY DEF Return, code
<1>2. CodeInv' /\ Interface' = Interface BY <1>1, CodeKept DEF IInv
<1>3. Answered
  BY <1>1 DEF IInv, CallInv, Idle, Waiting, Handling, Answering
<1> DEFINE result == IF proxy[call].value THEN executed[Len(executed)] ELSE Void
<1>4. out' = <<>> /\ returned' = Append(returned, result)
  <2>1. Head(out) = Answer /\ Tail(out) = <<>> BY <1>3 DEF Answered
  <2>2. proxy[call].value => Answer.data = executed[Len(executed)] BY DEF Answer, make_response
  <2>3. QED BY <1>1, <2>1, <2>2
<1>5. result \in Runs \cup {Void} BY <1>3, LastRun DEF IInv, Answered
<1> HIDE DEF result
<1>6. /\ returned' \in Seq(Runs \cup {Void})
      /\ Len(returned') = Len(returned) + 1
  BY <1>4, <1>5, AppendProperties DEF IInv, HistoryInv
<1>7. HistoryInv' BY <1>1, <1>6 DEF IInv, HistoryInv
<1>8. Idle' BY <1>1, <1>3, <1>4, <1>6 DEF Answered, Idle, Before, After
<1>9. proxy[call].value = Interface[proxy[call].fnc].value
  BY <1>3, MemberFacts DEF IInv, Answered, InCall
<1>10. AbstractCall = [member |-> proxy[call].fnc, ran |-> TRUE] /\ AbstractCall # NoCall
  BY <1>3, CallFacts DEF IInv, Answered
<1>11. AbstractCall' = NoCall BY <1>1 DEF AbstractCall
<1>12. returned' = Append(returned, IF Interface[AbstractCall.member].value
                                    THEN executed[Len(executed)] ELSE Void)
  BY <1>4, <1>9, <1>10 DEF result
<1>13. AbstractCall.ran BY <1>10
<1>14. Object!Return
  BY <1>1, <1>2, <1>10, <1>11, <1>12, <1>13 DEF Object!Return, AbstractCall
<1>15. QED BY <1>2, <1>7, <1>8, <1>14 DEF IInv, CallInv, Abstractly, Object!Next

LEMMA KillStep ==
  ASSUME IInv, Kill
  PROVE  IInv' /\ Abstractly
<1>1. /\ call = NoCall /\ ~killed /\ in' = Append(in, Goodbye) /\ killed' = TRUE
      /\ UNCHANGED <<code, proxy, out, call, server, message, executed, returned>>
  BY DEF Kill, results, code
<1>2. CodeInv' /\ Interface' = Interface BY <1>1, CodeKept DEF IInv
<1>3. HistoryInv' BY <1>1 DEF IInv, HistoryInv
<1>4. Idle
  BY <1>1, CallFacts DEF IInv, CallInv, Waiting, Handling, Answering, Answered
<1>5. in' = <<Goodbye>> BY <1>1, <1>4, ShortQueues DEF Idle
<1>6. Idle' BY <1>1, <1>4, <1>5 DEF Idle, Before
<1>7. AbstractCall = NoCall /\ AbstractCall' = NoCall BY <1>1 DEF AbstractCall
<1>8. Object!Kill BY <1>1, <1>2, <1>7 DEF Object!Kill, AbstractCall
<1>9. QED BY <1>2, <1>3, <1>6, <1>8 DEF IInv, CallInv, Abstractly, Object!Next

LEMMA ReceiveStep ==
  ASSUME IInv, Receive
  PROVE  IInv' /\ Abstractly
<1>1. /\ server = "recv" /\ in # <<>> /\ in' = Tail(in)
      /\ \/ Head(in).size = 0 /\ server' = "ended" /\ message' = message
         \/ Head(in).size # 0 /\ server' = "handle" /\ message' = Head(in)
      /\ UNCHANGED <<code, proxy, out, call, executed, returned, killed>>
  BY DEF Receive, results, code
<1>2. CodeInv' BY <1>1, CodeKept DEF IInv
<1>3. HistoryInv' BY <1>1 DEF IInv, HistoryInv
<1>4. Abstractly BY <1>1, Unseen DEF IInv
<1>5. Goodbye.size = 0 BY DEF Goodbye
<1>6. CASE Idle
  <2>1. in = <<Goodbye>> /\ killed BY <1>1, <1>6 DEF Idle
  <2>2. in' = <<>> /\ server' = "ended" /\ message' = message BY <1>1, <1>5, <2>1
  <2>3. Idle' BY <1>1, <1>6, <2>1, <2>2 DEF Idle, Before
  <2>4. QED BY <1>2, <1>3, <1>4, <2>3 DEF IInv, CallInv
<1>7. CASE Waiting
  <2>1. Asked.size = 1 BY <1>7, AskedType DEF IInv, Waiting
  <2>2. Asked' = Asked BY <1>1 DEF Asked, request, payload
  <2>3. InCall' /\ Before' BY <1>1, <1>7 DEF Waiting, InCall, Before
  <2>4. CASE in = <<Asked>>
    <3>1. in' = <<>> /\ server' = "handle" /\ message' = Asked BY <1>1, <2>1, <2>4
    <3>2. ~killed BY <1>1, <1>7, <2>4 DEF Waiting
    <3>3. Handling' BY <1>1, <1>7, <2>2, <2>3, <3>1, <3>2 DEF Waiting, Handling
    <3>4. QED BY <1>2, <1>3, <1>4, <3>3 DEF IInv, CallInv
  <2>5. CASE in = <<Goodbye, Asked>> /\ killed
    <3>1. in' = <<Asked>> /\ server' = "ended" /\ message' = message
      BY <1>1, <1>5, <2>5
    <3>2. Waiting' BY <1>1, <1>7, <2>2, <2>3, <2>5, <3>1 DEF Waiting
    <3>3. QED BY <1>2, <1>3, <1>4, <3>2 DEF IInv, CallInv
  <2>6. QED BY <1>7, <2>4, <2>5 DEF Waiting
<1>8. QED BY <1>1, <1>6, <1>7 DEF IInv, CallInv, Handling, Answering, Answered

LEMMA DispatchStep ==
  ASSUME IInv, Dispatch
  PROVE  IInv' /\ Abstractly
<1> DEFINE d   == dispatcher[message.index + 1]
           run == [function |-> target(d), args |-> message.data.args,
                   packer |-> message.data.packer]
           p   == proxy[call]
           m   == Interface[p.fnc]
<1>1. /\ server = "handle" /\ server' = "reply"
      /\ executed' = Append(executed, run)
      /\ message' = make_response(d.index, IF d.value THEN run ELSE Void)
      /\ UNCHANGED <<code, proxy, in, out, call, returned, killed>>
  BY DEF Dispatch, queues, code
<1>2. CodeInv' /\ Interface' = Interface BY <1>1, CodeKept DEF IInv
<1>3. Handling BY <1>1 DEF IInv, CallInv, Idle, Waiting, Answering, Answered
<1>4. /\ CodeInv /\ HistoryInv /\ InCall /\ Before /\ Len(returned) < MaxCalls
      /\ message = Asked
  BY <1>3 DEF IInv, Handling
<1>5. /\ call \in Nat /\ message.index + 1 = call
      /\ message.data.args = Len(returned) + 1
  BY <1>4, AskedType, MemberFacts DEF InCall
<1>6. d = dispatcher[call] BY <1>5
<1>7. /\ d.index = p.index /\ d.value = p.value /\ m.function \in Functions
      /\ p.fnc \in Positions
      /\ m.packs <=> p.kind = "CustomProxy"
      /\ IF d.kind = "FunctionTemplateDispatcher"
         THEN p.kind = "FunctionTemplateProxy" /\ m.function = p.fnc
         ELSE m.function = d.fnc
  BY <1>4, <1>6, MemberFacts, InterfaceType DEF InCall, Positions
<1>8. /\ message.data.packer = IF p.kind = "CustomProxy" THEN p.fnc ELSE NoMember
      /\ message.data.pointer = IF p.kind = "FunctionTemplateProxy" THEN p.fnc ELSE NoMember
  BY <1>4 DEF Asked, request, payload
<1>9. target(d) = m.function BY <1>7, <1>8 DEF target
<1>10. run = [function |-> m.function, args |-> Len(returned) + 1,
              packer |-> IF m.packs THEN p.fnc ELSE NoMember]
  BY <1>5, <1>7, <1>8, <1>9
<1>11. run \in Runs
  <2>1. Len(returned) + 1 \in 1..MaxCalls BY <1>4, Counts, RpcAssumption
  <2>2. message.data.packer \in Positions BY <1>7, <1>8 DEF Positions
  <2>3. QED BY <1>5, <1>7, <1>9, <2>1, <2>2 DEF Runs
<1> HIDE DEF d, run, p, m
<1>12. /\ executed' \in Seq(Runs) /\ Len(executed') = Len(executed) + 1
       /\ executed'[Len(executed')] = run
  BY <1>1, <1>4, <1>11, AppendProperties DEF HistoryInv
<1>13. HistoryInv' BY <1>1, <1>4, <1>12 DEF HistoryInv
<1>14. InCall' /\ After' BY <1>1, <1>4, <1>12 DEF InCall, Before, After
<1>15. message' = Answer' BY <1>1, <1>7, <1>12 DEF Answer, make_response, p
<1>16. Answering' BY <1>1, <1>3, <1>14, <1>15 DEF Handling, Answering
<1>17. /\ AbstractCall = [member |-> p.fnc, ran |-> FALSE] /\ AbstractCall # NoCall
  BY <1>4, CallFacts DEF p
<1>18. AbstractCall' = [member |-> p.fnc, ran |-> TRUE]
  <2>1. Len(executed') > Len(returned') BY <1>13, <1>14, <1>12, <1>1, <1>4, Counts DEF Before
  <2>2. call' # NoCall BY <1>1, <1>4, CallFacts
  <2>3. QED BY <1>1, <2>1, <2>2 DEF AbstractCall, p
<1>19. AbstractCall' = [AbstractCall EXCEPT !.ran = TRUE] BY <1>17, <1>18, HasRun
<1>20. /\ ~AbstractCall.ran /\ ~killed
       /\ Interface[AbstractCall.member] = m /\ AbstractCall.member = p.fnc
  BY <1>3, <1>17 DEF m, Handling
<1>21. Object!Run
  BY <1>1, <1>2, <1>10, <1>17, <1>19, <1>20 DEF Object!Run, AbstractCall
<1>22. QED BY <1>2, <1>13, <1>16, <1>21 DEF IInv, CallInv, Abstractly, Object!Next

LEMMA ReplyStep ==
  ASSUME IInv, Reply
  PROVE  IInv' /\ Abstractly
<1>1. /\ server = "reply" /\ server' = "recv" /\ message' = NoMessage
      /\ out' = Append(out, message)
      /\ UNCHANGED <<code, proxy, in, call, executed, returned, killed>>
  BY DEF Reply, results, code
<1>2. CodeInv' BY <1>1, CodeKept DEF IInv
<1>3. HistoryInv' BY <1>1 DEF IInv, HistoryInv
<1>4. Abstractly BY <1>1, Unseen DEF IInv
<1>5. Answering BY <1>1 DEF IInv, CallInv, Idle, Waiting, Handling, Answered
<1>6. out' = <<Answer>> BY <1>1, <1>5 DEF Answering
<1>7. Answer' = Answer BY <1>1 DEF Answer, make_response
<1>8. Answered' BY <1>1, <1>5, <1>6, <1>7 DEF Answering, Answered, InCall, After
<1>9. QED BY <1>2, <1>3, <1>4, <1>8 DEF IInv, CallInv

LEMMA NextStep ==
  ASSUME IInv, [Next]_vars
  PROVE  IInv' /\ Abstractly
<1>1. ASSUME NEW i \in DOMAIN proxy, Call(i) PROVE IInv' /\ Abstractly BY <1>1, CallStep
<1>2. CASE Return BY <1>2, ReturnStep
<1>3. CASE Kill BY <1>3, KillStep
<1>4. CASE Receive BY <1>4, ReceiveStep
<1>5. CASE Dispatch BY <1>5, DispatchStep
<1>6. CASE Reply BY <1>6, ReplyStep
<1>7. CASE UNCHANGED vars
  <2>1. UNCHANGED <<code, proxy, in, out, call, server, message, executed, returned, killed>>
    BY <1>7 DEF vars, queues, results, code
  <2>2. CodeInv' /\ Abstractly BY <2>1, CodeKept, Unseen DEF IInv
  <2>3. HistoryInv' BY <2>1 DEF IInv, HistoryInv
  <2>4. CallInv'
    BY <2>1 DEF IInv, CallInv, Idle, Waiting, Handling, Answering, Answered, InCall, Before,
                After, Asked, Answer, request, payload, make_response
  <2>5. QED BY <2>2, <2>3, <2>4 DEF IInv
<1>8. QED BY <1>1, <1>2, <1>3, <1>4, <1>5, <1>6, <1>7 DEF Next, Client, Server

LEMMA Initially == Init => IInv
<1> SUFFICES ASSUME Init PROVE IInv OBVIOUS
<1>1. NumberingAgrees /\ executed \in Seq(Runs) /\ returned \in Seq(Runs \cup {Void})
  BY EmptySeq, NumbersAtStart DEF Init
<1>2. QED BY <1>1 DEF Init, IInv, CodeInv, HistoryInv, CallInv, Idle, Before

LEMMA Invariance == Spec => []IInv
<1>1. IInv /\ [Next]_vars => IInv' BY NextStep
<1>2. QED BY <1>1, Initially, PTL DEF Spec

-----------------------------------------------------------------------------
(* make_proxy and make_dispatcher of any policies, in any order, number the  *)
(* members of any service alike, and make of each what it is declared to be. *)
THEOREM NumberedAlike == Spec => []NumberingAgrees
<1>1. IInv => NumberingAgrees BY DEF IInv, CodeInv
<1>2. QED BY <1>1, Invariance, PTL

(* The state keeps its types: no function pointer that is null or not sent   *)
(* is ever called.                                                           *)
THEOREM TypeCorrect == Spec => []TypeOK
<1>1. IInv => TypeOK
  <2> SUFFICES ASSUME IInv PROVE TypeOK OBVIOUS
  <2>1. CodeInv /\ HistoryInv /\ CallInv BY DEF IInv
  <2>2. call \in DOMAIN proxy \cup {NoCall}
    BY <2>1 DEF CallInv, Idle, Waiting, Handling, Answering, Answered, InCall
  <2> DEFINE Messages == Requests \cup {Goodbye}
  <2>3. Goodbye \in Messages /\ \A r \in Requests : r \in Messages OBVIOUS
  <2> HIDE DEF Messages
  <2>4. /\ in \in Seq(Messages) /\ out \in Seq(Responses)
        /\ \/ server \in {"recv", "ended"} /\ message = NoMessage
           \/ server = "handle" /\ message \in Requests
           \/ server = "reply" /\ message \in Responses
    <3>1. CASE Idle BY <2>3, <3>1, ListsOf DEF Idle
    <3>2. CASE Waiting
      <4>1. Asked \in Requests BY <2>1, <3>2, AskedType DEF Waiting
      <4>2. QED BY <2>3, <3>2, <4>1, ListsOf DEF Waiting
    <3>3. CASE Handling BY <2>1, <3>3, AskedType, ListsOf DEF Handling
    <3>4. CASE Answering BY <2>1, <3>4, AnswerType, ListsOf DEF Answering
    <3>5. CASE Answered
      <4>1. Answer \in Responses BY <2>1, <3>5, AnswerType DEF Answered
      <4>2. QED BY <3>5, <4>1, ListsOf DEF Answered
    <3>6. QED BY <2>1, <3>1, <3>2, <3>3, <3>4, <3>5 DEF CallInv
  <2>5. QED BY <2>1, <2>2, <2>4 DEF TypeOK, HistoryInv, Messages
<1>2. QED BY <1>1, Invariance, PTL

(* The assertion of read_response holds: the response a call reads has       *)
(* its index, and a value exactly if the call reads one.                     *)
THEOREM ResponsesMatch == Spec => []ResponseMatchesCall
<1>1. IInv => ResponseMatchesCall
  <2> SUFFICES ASSUME IInv, call # NoCall, out # <<>>
               PROVE  /\ Head(out).index = proxy[call].index
                      /\ proxy[call].value <=> Head(out).data # Void
    BY DEF ResponseMatchesCall
  <2>1. Answered BY DEF IInv, CallInv, Idle, Waiting, Handling, Answering
  <2>2. Head(out) = Answer BY <2>1 DEF Answered
  <2>3. QED BY <2>1, <2>2, AnswerType DEF IInv, Answered
<1>2. QED BY <1>1, Invariance, PTL

(* A call through the proxy (operator() of rpc/proxy.hpp) is a call of       *)
(* the function the declaration means: it runs once, with the arguments of   *)
(* the call, and its result is returned.                                     *)
THEOREM RefinesRemoteObject == Spec => ImplementsRemoteObject
<1>1. Init => Object!Init
  <2> SUFFICES ASSUME Init PROVE Object!Init OBVIOUS
  <2>1. DOMAIN Interface \subseteq Nat
    BY Initially, InterfaceType, RpcAssumption DEF IInv
  <2>2. QED BY <2>1 DEF Init, Object!Init
<1>2. IInv /\ [Next]_vars => [Object!Next]_(Object!vars)
  BY NextStep DEF Abstractly
<1>3. QED BY <1>1, <1>2, Invariance, PTL DEF Spec, ImplementsRemoteObject, Object!Spec
=============================================================================
