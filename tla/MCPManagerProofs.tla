-------------------------- MODULE MCPManagerProofs --------------------------
(***************************************************************************)
(* That a tool belongs to the first server that could offer it, that what  *)
(* the model is offered can be routed, and that the store tells of a tool  *)
(* call what happened: for every configuration, every list of tools and    *)
(* any number of concurrent calls.                                         *)
(***************************************************************************)
EXTENDS MCPManager, SequenceTheorems, WellFoundedInduction, TLAPS

StartingUp == {"connect", "refused", "connected", "discover", "undiscovered",
               "discovered"}

(* The current server is connected. *)
Connected == {"connected", "discover", "undiscovered", "discovered"}

(* The loop of startup has left the first k servers behind: those after     *)
(* them are not connected and have offered nothing, except the current one. *)
Reached(k) ==
  /\ todo = SubSeq(Config, k + 1, Len(Config))
  /\ pc # "connect" => k < Len(Config)
  /\ pc \in Connected => Config[k + 1] \in ToSet(servers)
  /\ \A i \in k + 1..Len(Config) :
       /\ Config[i] \in ToSet(servers) => i = k + 1 /\ pc \in Connected
       /\ offered[Config[i]] # <<>> => i = k + 1 /\ pc = "discovered"

LoopInv ==
  /\ pc = "new" => ToSet(servers) = {} /\ \A s \in Servers : offered[s] = <<>>
  /\ pc \in StartingUp => \E k \in 0..Len(Config) : Reached(k)
  /\ pc \in {"close", "stopped", "stopFailed"} => todo # <<>>

(* Only a configured server is connected, and only such a one is asked. *)
ServersInv ==
  /\ ToSet(servers) \subseteq ToSet(Config)
  /\ \A s \in Servers : offered[s] # <<>> => s \in ToSet(Config)

(* Every name that was offered has an owner until shutdown clears them. *)
ClaimedInv ==
  pc # "down" => \A s \in Servers : \A t \in ToSet(offered[s]) :
                   routing[t] # NoServer

(* Where a call is and what the store has of it. *)
CallInv ==
  \A c \in Calls :
    /\ call[c] \in {"idle", "announce"} => log[c] = <<>> /\ ~ answered[c]
    /\ call[c] \in {"run", "await", "complain"} =>
         log[c] = <<"called">> /\ ~ answered[c]
    /\ call[c] = "report" => log[c] = <<"called">> /\ answered[c]

ManagerInv ==
  /\ TypeOK
  /\ LoopInv
  /\ ServersInv
  /\ ClaimedInv
  /\ FirstClaimer
  /\ ToolsRouted
  /\ CallInv
  /\ CallHistory

-----------------------------------------------------------------------------
(* Sequences: what is in them, and when an item is in them twice.           *)

(* Appending an item. *)
LEMMA AppendSet ==
  ASSUME NEW S, NEW s \in Seq(S), NEW x \in S
  PROVE  /\ Append(s, x) \in Seq(S)
         /\ ToSet(Append(s, x)) = ToSet(s) \union {x}
         /\ IsInjective(s) /\ x \notin ToSet(s) => IsInjective(Append(s, x))
<1> DEFINE a == Append(s, x)
<1>1. /\ a \in Seq(S) /\ DOMAIN a = 1..Len(s) + 1 /\ DOMAIN s = 1..Len(s)
      /\ Len(s) \in Nat /\ a[Len(s) + 1] = x
      /\ \A i \in 1..Len(s) : a[i] = s[i]
  OBVIOUS
<1> HIDE DEF a
<1>2. \A i \in DOMAIN a : i \in DOMAIN s \/ i = Len(s) + 1
  BY <1>1
<1>3. DOMAIN s \subseteq DOMAIN a /\ Len(s) + 1 \in DOMAIN a
  BY <1>1
<1>4. ToSet(a) = ToSet(s) \union {x}
  BY <1>1, <1>2, <1>3 DEF ToSet
<1>5. ASSUME IsInjective(s), x \notin ToSet(s) PROVE IsInjective(a)
  BY <1>1, <1>2, <1>5 DEF IsInjective, ToSet
<1>6. QED  BY <1>1, <1>4, <1>5 DEF a

(* Joining two sequences. *)
LEMMA ConcatSet ==
  ASSUME NEW S, NEW s \in Seq(S), NEW t \in Seq(S)
  PROVE  /\ s \o t \in Seq(S)
         /\ ToSet(s \o t) = ToSet(s) \union ToSet(t)
         /\ (IsInjective(s) /\ IsInjective(t) /\ ToSet(s) \intersect ToSet(t) = {})
              => IsInjective(s \o t)
<1> DEFINE a == s \o t
<1>1. /\ a \in Seq(S) /\ DOMAIN a = 1..Len(s) + Len(t)
      /\ DOMAIN s = 1..Len(s) /\ DOMAIN t = 1..Len(t)
      /\ Len(s) \in Nat /\ Len(t) \in Nat
      /\ \A i \in 1..Len(s) : a[i] = s[i]
      /\ \A i \in 1..Len(t) : a[Len(s) + i] = t[i]
  OBVIOUS
<1> HIDE DEF a
<1>2. \A i \in DOMAIN a : i \in DOMAIN s \/ \E j \in DOMAIN t : i = Len(s) + j
  <2>1. ASSUME NEW i \in DOMAIN a, i \notin DOMAIN s
        PROVE  i - Len(s) \in DOMAIN t /\ i = Len(s) + (i - Len(s))
    BY <1>1, <2>1
  <2>2. QED  BY <2>1
<1>3. DOMAIN s \subseteq DOMAIN a /\ \A j \in DOMAIN t : Len(s) + j \in DOMAIN a
  BY <1>1
<1>4. ToSet(a) = ToSet(s) \union ToSet(t)
  <2>1. \A i \in DOMAIN a : a[i] \in ToSet(s) \union ToSet(t)
    <3>1. ASSUME NEW i \in DOMAIN s PROVE a[i] \in ToSet(s)
      BY <1>1 DEF ToSet
    <3>2. ASSUME NEW j \in DOMAIN t PROVE a[Len(s) + j] \in ToSet(t)
      BY <1>1 DEF ToSet
    <3>3. QED  BY <1>2, <3>1, <3>2
  <2>2. ASSUME NEW i \in DOMAIN s PROVE s[i] \in ToSet(a)
    <3>1. i \in DOMAIN a /\ a[i] = s[i]
      BY <1>1, <1>3
    <3>2. QED  BY <3>1 DEF ToSet
  <2>3. ASSUME NEW j \in DOMAIN t PROVE t[j] \in ToSet(a)
    <3>1. Len(s) + j \in DOMAIN a /\ a[Len(s) + j] = t[j]
      BY <1>1, <1>3
    <3>2. QED  BY <3>1 DEF ToSet
  <2>4. QED  BY <2>1, <2>2, <2>3 DEF ToSet
<1>5. ASSUME IsInjective(s), IsInjective(t), ToSet(s) \intersect ToSet(t) = {},
             NEW i \in DOMAIN a, NEW k \in DOMAIN a, a[i] = a[k]
      PROVE  i = k
  <2>1. \A n \in DOMAIN a :
          \/ n \in DOMAIN s /\ a[n] = s[n] /\ a[n] \in ToSet(s)
          \/ \E j \in DOMAIN t : /\ n = Len(s) + j
                                 /\ a[n] = t[j] /\ a[n] \in ToSet(t)
    <3>1. ASSUME NEW n \in DOMAIN s PROVE a[n] = s[n] /\ a[n] \in ToSet(s)
      BY <1>1 DEF ToSet
    <3>2. ASSUME NEW j \in DOMAIN t
          PROVE  a[Len(s) + j] = t[j] /\ a[Len(s) + j] \in ToSet(t)
      BY <1>1 DEF ToSet
    <3>3. QED  BY <1>2, <3>1, <3>2
  <2>2. CASE a[i] \in ToSet(s)
    <3>1. i \in DOMAIN s /\ k \in DOMAIN s /\ s[i] = s[k]
      BY <1>5, <2>1, <2>2
    <3>2. QED  BY <1>5, <3>1 DEF IsInjective
  <2>3. CASE a[i] \notin ToSet(s)
    <3>1. PICK j \in DOMAIN t : i = Len(s) + j /\ a[i] = t[j]
      BY <2>1, <2>3
    <3>2. PICK l \in DOMAIN t : k = Len(s) + l /\ a[k] = t[l]
      BY <1>5, <2>1, <2>3
    <3>3. QED  BY <1>5, <3>1, <3>2 DEF IsInjective
  <2>4. QED  BY <2>2, <2>3
<1>6. QED  BY <1>1, <1>4, <1>5 DEF a, IsInjective

-----------------------------------------------------------------------------
(* The names an answer claims.                                              *)

(* A set of naturals has a least element: the form of induction on which    *)
(* the facts about the recursive function below rest.                       *)
LEMMA LeastNatural ==
  ASSUME NEW T, T \subseteq Nat, T # {}
  PROVE  \E n \in T : \A m \in T : n <= m
<1> DEFINE R == {ss \in Nat \X Nat : ss[1] < ss[2]}
<1>1. IsWellFoundedOn(R, Nat)
  BY NatLessThanWellFounded, Zenon DEF OpToRel
<1>2. \A x, y \in Nat : <<y, x>> \in R <=> y < x
  OBVIOUS
<1> HIDE DEF R
<1>3. PICK n \in T : \A m \in T : ~ (<<m, n>> \in R)
  BY <1>1, WFMin
<1>4. ASSUME NEW m \in T PROVE n <= m
  <2>1. n \in Nat /\ m \in Nat
    OBVIOUS
  <2>2. ~ (m < n)
    BY <1>2, <1>3, <2>1
  <2>3. QED  BY <2>1, <2>2
<1>5. QED  BY <1>4

NamesOf(offer, f, n) ==
  f = [i \in 0..n |->
        IF i = 0 THEN <<>>
        ELSE IF Fresh(offer, i) THEN Append(f[i - 1], offer[i])
        ELSE f[i - 1]]

(* The recursion by which Unclaimed is defined has a solution. *)
LEMMA NamesExist ==
  ASSUME NEW offer, NEW k \in Nat
  PROVE  \E f : NamesOf(offer, f, k)
<1> DEFINE T == {n \in Nat : ~ \E f : NamesOf(offer, f, n)}
<1>1. SUFFICES ASSUME T # {} PROVE FALSE
  OBVIOUS
<1>2. PICK n \in T : \A m \in T : n <= m
  <2>1. T \subseteq Nat
    OBVIOUS
  <2> HIDE DEF T
  <2>2. QED  BY <1>1, <2>1, LeastNatural
<1>3. n # 0
  <2>1. NamesOf(offer, [i \in 0..0 |-> <<>>], 0)
    BY DEF NamesOf
  <2>2. QED  BY <2>1
<1>4. PICK f : NamesOf(offer, f, n - 1)
  <2>1. n - 1 \in Nat /\ n - 1 \notin T
    BY <1>2, <1>3
  <2>2. QED  BY <2>1
<1> DEFINE last == IF Fresh(offer, n) THEN Append(f[n - 1], offer[n])
                   ELSE f[n - 1]
           g == [i \in 0..n |-> IF i < n THEN f[i] ELSE last]
<1>5. ASSUME NEW i \in 0..n
      PROVE  g[i] = IF i = 0 THEN <<>>
                    ELSE IF Fresh(offer, i) THEN Append(g[i - 1], offer[i])
                    ELSE g[i - 1]
  <2> HIDE DEF last
  <2>1. CASE i < n
    <3>1. i \in 0..n - 1 /\ g[i] = f[i] /\ (i # 0 => g[i - 1] = f[i - 1])
      BY <2>1
    <3>2. f[i] = IF i = 0 THEN <<>>
                 ELSE IF Fresh(offer, i) THEN Append(f[i - 1], offer[i])
                 ELSE f[i - 1]
      BY <1>4, <3>1 DEF NamesOf
    <3>3. QED  BY <3>1, <3>2
  <2>2. CASE i = n
    <3>1. g[n] = last /\ g[n - 1] = f[n - 1]
      BY <1>3
    <3>2. QED  BY <1>3, <2>2, <3>1 DEF last
  <2>3. QED  BY <2>1, <2>2
<1>6. NamesOf(offer, g, n)
  <2>1. g = [i \in 0..n |-> g[i]]
    OBVIOUS
  <2> HIDE DEF g
  <2>2. QED  BY <1>5, <2>1 DEF NamesOf
<1>7. QED  BY <1>6

(* An answer claims the names of it that no server owns yet, each once.     *)
LEMMA UnclaimedNames ==
  ASSUME NEW offer \in Seq(Tools)
  PROVE  /\ Unclaimed(offer) \in Seq(Tools)
         /\ IsInjective(Unclaimed(offer))
         /\ ToSet(Unclaimed(offer)) =
              {t \in ToSet(offer) : routing[t] = NoServer}
<1> DEFINE f == CHOOSE f : NamesOf(offer, f, Len(offer))
           Good(n) == /\ f[n] \in Seq(Tools)
                      /\ IsInjective(f[n])
                      /\ ToSet(f[n]) = {offer[i] : i \in
                           {j \in 1..n : routing[offer[j]] = NoServer}}
           T == {n \in 0..Len(offer) : ~ Good(n)}
<1>1. Unclaimed(offer) = f[Len(offer)]
  BY Zenon DEF Unclaimed, NamesOf
<1>2. Len(offer) \in Nat
  OBVIOUS
<1>3. NamesOf(offer, f, Len(offer))
  BY <1>2, NamesExist, Zenon
<1> HIDE DEF f
<1>4. T = {}
  <2>1. SUFFICES ASSUME T # {} PROVE FALSE
    OBVIOUS
  <2>2. PICK n \in T : \A m \in T : n <= m
    <3>1. T \subseteq Nat
      OBVIOUS
    <3> HIDE DEF T
    <3>2. QED  BY <2>1, <3>1, LeastNatural
  <2>3. Good(0)
    <3>1. f[0] = <<>>
      BY <1>2, <1>3 DEF NamesOf
    <3>2. QED  BY <3>1 DEF IsInjective, ToSet
  <2>4. n \in 1..Len(offer) /\ n - 1 \in 0..Len(offer) /\ Good(n - 1)
    <3> HIDE DEF Good
    <3>1. n \in 0..Len(offer) /\ n # 0
      BY <2>3
    <3>2. n - 1 \in 0..Len(offer) /\ ~ (n <= n - 1)
      BY <1>2, <3>1
    <3>3. n - 1 \notin T
      BY <2>2, <3>2
    <3>4. QED  BY <1>2, <3>1, <3>2, <3>3
  <2> HIDE DEF T
  <2>5. f[n] = IF Fresh(offer, n) THEN Append(f[n - 1], offer[n]) ELSE f[n - 1]
    <3> HIDE DEF Good
    <3>1. n \in 0..Len(offer) /\ n # 0
      BY <1>2, <2>4
    <3>2. QED  BY <1>3, <3>1 DEF NamesOf
  <2>6. \A j \in 1..n : j \in 1..n - 1 \/ j = n
    BY <2>4
  <2>7. Good(n)
    <3>1. CASE Fresh(offer, n)
      <4>1. offer[n] \in Tools /\ offer[n] \notin ToSet(f[n - 1])
        BY <2>4, <3>1 DEF Fresh
      <4>2. ToSet(f[n]) = ToSet(f[n - 1]) \union {offer[n]}
        BY <2>4, <2>5, <3>1, <4>1, AppendSet
      <4>3. f[n] \in Seq(Tools) /\ IsInjective(f[n])
        BY <2>4, <2>5, <3>1, <4>1, AppendSet
      <4>4. ToSet(f[n]) = {offer[i] : i \in
                             {j \in 1..n : routing[offer[j]] = NoServer}}
        BY <2>4, <2>6, <3>1, <4>2 DEF Fresh
      <4>5. QED  BY <4>3, <4>4
    <3>2. CASE ~ Fresh(offer, n)
      <4>1. ToSet(f[n]) = {offer[i] : i \in
                             {j \in 1..n : routing[offer[j]] = NoServer}}
        BY <2>4, <2>5, <2>6, <3>2 DEF Fresh
      <4>2. QED  BY <2>4, <2>5, <3>2, <4>1
    <3>3. QED  BY <3>1, <3>2
  <2>8. QED  BY <2>7 DEF T
<1>5. Good(Len(offer))
  <2> HIDE DEF Good
  <2>1. Len(offer) \in 0..Len(offer)
    BY <1>2
  <2>2. QED  BY <1>4, <2>1
<1>6. ToSet(offer) = {offer[i] : i \in 1..Len(offer)}
  BY DEF ToSet
<1>7. QED  BY <1>1, <1>5, <1>6

-----------------------------------------------------------------------------
(* The configuration: every server in it has one place.                     *)
LEMMA PlaceOf ==
  ASSUME NEW i \in DOMAIN Config
  PROVE  Place(Config[i]) = i
<1>1. \E j \in DOMAIN Config : Config[j] = Config[i]
  OBVIOUS
<1>2. Place(Config[i]) \in DOMAIN Config /\ Config[Place(Config[i])] = Config[i]
  BY <1>1 DEF Place
<1>3. QED  BY <1>2, ManagerAssumption DEF IsInjective

(* What the loop has left after k servers. *)
LEMMA Left ==
  ASSUME NEW k \in 0..Len(Config), todo = SubSeq(Config, k + 1, Len(Config))
  PROVE  /\ todo = <<>> <=> k = Len(Config)
         /\ k < Len(Config) =>
              /\ Head(todo) = Config[k + 1] /\ Head(todo) \in Servers
              /\ Tail(todo) = SubSeq(Config, k + 2, Len(Config))
<1>1. Config \in Seq(Servers) /\ Len(Config) \in Nat /\ k \in Nat
  BY ManagerAssumption
<1>2. /\ Len(todo) = IF k + 1 <= Len(Config) THEN Len(Config) - (k + 1) + 1
                     ELSE 0
      /\ todo \in Seq(Servers)
  <2>1. \A i \in k + 1..Len(Config) : Config[i] \in Servers
    BY <1>1, ElementOfSeq
  <2>2. QED  BY <1>1, <2>1, SubSeqProperties
<1>3. todo = <<>> <=> Len(todo) = 0
  BY <1>2, EmptySeq
<1>4. ASSUME k < Len(Config)
      PROVE  /\ Head(todo) = Config[k + 1] /\ Head(todo) \in Servers
             /\ Tail(todo) = SubSeq(Config, k + 2, Len(Config))
  <2>1. k + 1 \in 1..Len(Config) /\ Len(Config) \in k + 1..Len(Config)
    BY <1>1, <1>4
  <2>2. k + 1 + 1 = k + 2
    BY <1>1
  <2>3. Config[k + 1] \in Servers
    BY <1>1, <2>1, ElementOfSeq
  <2>4. QED  BY <1>1, <2>1, <2>2, <2>3, HeadTailOfSubSeq
<1>5. QED  BY <1>1, <1>2, <1>3, <1>4

-----------------------------------------------------------------------------
(* The steps of the loops keep the invariant.                               *)

(* What concerns the calls is left alone by the manager's own steps. *)
LEMMA SameCalls ==
  ASSUME ManagerInv, UNCHANGED callVars
  PROVE  CallInv' /\ CallHistory'
BY DEF ManagerInv, callVars, CallInv, CallHistory

(* What is known of tools and servers is left alone. *)
LEMMA SameTools ==
  ASSUME ManagerInv, UNCHANGED toolVars, UNCHANGED servers, pc # "down"
  PROVE  ServersInv' /\ ClaimedInv' /\ FirstClaimer' /\ ToolsRouted'
BY DEF ManagerInv, toolVars, ServersInv, ClaimedInv, FirstClaimer, ToolsRouted

(* The publishes of the loops. *)
LEMMA AnnounceNext ==
  ASSUME pc \in DOMAIN Announcements
  PROVE  /\ pc \in {"refused", "connected", "undiscovered", "discovered",
                    "stopped", "stopFailed"}
         /\ Announcements[pc] =
              IF pc = "connected" THEN "discover"
              ELSE IF pc \in {"stopped", "stopFailed"} THEN "stop" ELSE "connect"
BY DEF Announcements

(* One server is started, or is not. *)
LEMMA ConnectStep ==
  ASSUME ManagerInv, Connect
  PROVE  ManagerInv'
<1> DEFINE s == Head(todo)
<1> USE DEF ManagerInv, lifeVars, linkVars, toolVars, callVars
<1>1. PICK k \in 0..Len(Config) : Reached(k)
  BY DEF Connect, LoopInv, StartingUp
<1>2. /\ pc = "connect" /\ k < Len(Config) /\ s = Config[k + 1] /\ s \in Servers
      /\ k + 1 \in DOMAIN Config /\ Len(Config) \in Nat
  <2>1. Config \in Seq(Servers)
    BY ManagerAssumption
  <2>2. pc = "connect" /\ todo # <<>>
    BY DEF Connect
  <2>3. k < Len(Config)
    BY <1>1, <2>1, <2>2, Left DEF Reached
  <2>4. QED  BY <1>1, <2>1, <2>2, <2>3, Left DEF Reached
<1>3. UNCHANGED <<toolVars, callVars, todo, started, observed>>
  BY DEF Connect
<1>4. CallInv' /\ CallHistory'
  BY <1>3, SameCalls
<1>5. /\ \A i \in k + 1..Len(Config) : Config[i] \notin ToSet(servers)
      /\ \A i \in k + 1..Len(Config) : offered[Config[i]] = <<>>
  BY <1>1, <1>2 DEF Reached, Connected
<1>6. link' \in [Servers -> LinkStates]
  BY <1>2 DEF Connect, TypeOK, LinkStates
<1>7. CASE pc' = "refused" /\ UNCHANGED servers
  <2>1. Reached(k)'
    BY <1>1, <1>2, <1>3, <1>5, <1>7 DEF Reached, Connected
  <2>2. LoopInv'
    BY <1>7, <2>1 DEF LoopInv, StartingUp
  <2>3. TypeOK'
    BY <1>3, <1>6, <1>7 DEF TypeOK, LoopStates, Announcements
  <2>4. QED
    BY <1>2, <1>3, <1>4, <1>7, <2>2, <2>3, SameTools
<1>8. CASE pc' = "connected" /\ servers' = Append(servers, s)
  <2>1. s \notin ToSet(servers)
    BY <1>2, <1>5
  <2>2. /\ servers' \in Seq(Servers) /\ IsInjective(servers')
        /\ ToSet(servers') = ToSet(servers) \union {s}
    BY <1>2, <1>8, <2>1, AppendSet DEF TypeOK
  <2>3. Reached(k)'
    <3>1. \A i \in k + 1..Len(Config) : Config[i] = s => i = k + 1
      <4>1. DOMAIN Config = 1..Len(Config)
        BY ManagerAssumption
      <4>2. \A i \in k + 1..Len(Config) : i \in DOMAIN Config
        BY <1>2, <4>1
      <4>3. QED  BY <1>2, <4>2, ManagerAssumption DEF IsInjective
    <3>2. \A i \in k + 1..Len(Config) : Config[i] \in ToSet(servers') => i = k + 1
      BY <1>5, <2>2, <3>1
    <3>3. QED
      BY <1>1, <1>2, <1>3, <1>5, <1>8, <2>2, <3>2 DEF Reached, Connected
  <2>4. LoopInv'
    BY <1>8, <2>3 DEF LoopInv, StartingUp
  <2>5. TypeOK'
    BY <1>3, <1>6, <1>8, <2>2 DEF TypeOK, LoopStates, Announcements
  <2>6. ServersInv'
    <3>1. s \in ToSet(Config)
      BY <1>2 DEF ToSet
    <3>2. QED  BY <1>3, <2>2, <3>1 DEF ServersInv
  <2>7. ClaimedInv' /\ FirstClaimer' /\ ToolsRouted'
    BY <1>2, <1>3, <1>8, <2>2 DEF ClaimedInv, FirstClaimer, ToolsRouted
  <2>8. QED  BY <1>4, <2>4, <2>5, <2>6, <2>7
<1>9. QED  BY <1>7, <1>8 DEF Connect

(* What a server has answered is in the routing. *)
LEMMA DiscoverStep ==
  ASSUME ManagerInv, Discover
  PROVE  ManagerInv'
<1> DEFINE s == Head(todo)
<1> USE DEF ManagerInv, lifeVars, linkVars, toolVars, callVars
<1>1. PICK k \in 0..Len(Config) : Reached(k)
  BY DEF Discover, LoopInv, StartingUp
<1>2. pc = "discover"
  BY DEF Discover
<1>3. /\ k < Len(Config) /\ s = Config[k + 1] /\ s \in Servers
      /\ k + 1 \in DOMAIN Config /\ Len(Config) \in Nat
      /\ s \in ToSet(servers)
  <2>1. Config \in Seq(Servers)
    BY ManagerAssumption
  <2>2. k < Len(Config)
    BY <1>1, <1>2 DEF Reached
  <2>3. s = Config[k + 1] /\ s \in Servers
    BY <1>1, <2>2, Left DEF Reached
  <2>4. QED  BY <1>1, <1>2, <2>1, <2>2, <2>3 DEF Reached, Connected
<1>4. UNCHANGED <<linkVars, callVars, todo, started, observed>>
  BY DEF Discover
<1>5. CallInv' /\ CallHistory'
  BY <1>4, SameCalls
<1>6. \A i \in k + 1..Len(Config) :
        /\ Config[i] \in ToSet(servers) => i = k + 1
        /\ offered[Config[i]] = <<>>
  BY <1>1, <1>2 DEF Reached
<1>7. CASE pc' = "undiscovered" /\ UNCHANGED toolVars
  <2>1. Reached(k)'
    BY <1>1, <1>2, <1>3, <1>4, <1>6, <1>7 DEF Reached, Connected
  <2>2. LoopInv'
    BY <1>7, <2>1 DEF LoopInv, StartingUp
  <2>3. TypeOK'
    BY <1>4, <1>7 DEF TypeOK, LoopStates, Announcements
  <2>4. QED  BY <1>2, <1>4, <1>5, <1>7, <2>2, <2>3, SameTools
<1>8. ASSUME NEW offer \in Offers[s], Claim(s, offer),
             offered' = [offered EXCEPT ![s] = offer], pc' = "discovered"
      PROVE  ManagerInv'
  <2> DEFINE names == Unclaimed(offer)
  <2>1. offer \in Seq(Tools)
    BY <1>3, ManagerAssumption
  <2>2. /\ names \in Seq(Tools) /\ IsInjective(names)
        /\ ToSet(names) = {t \in ToSet(offer) : routing[t] = NoServer}
    BY <2>1, UnclaimedNames
  <2> HIDE DEF names
  <2>3. /\ routing' = [t \in Tools |-> IF t \in ToSet(names) THEN s ELSE routing[t]]
        /\ tools' = tools \o names
    BY <1>8 DEF Claim, Owns, names
  <2>4. /\ s # NoServer /\ s \in ToSet(Config) /\ pc # "down"
        /\ DOMAIN Config = 1..Len(Config)
    BY <1>2, <1>3, ManagerAssumption DEF ToSet
  <2>5. \A t \in Tools : t \in ToSet(tools) <=> routing[t] # NoServer
    BY DEF ToolsRouted
  <2>6. ToSet(tools) \subseteq Tools /\ ToSet(names) \subseteq Tools
    <3>1. ToSet(tools) \subseteq Tools
      BY DEF ToolsRouted
    <3>2. \A n \in DOMAIN names : names[n] \in Tools
      BY <2>2
    <3>3. QED  BY <3>1, <3>2 DEF ToSet
  <2>7. /\ tools' \in Seq(Tools) /\ IsInjective(tools')
        /\ ToSet(tools') = ToSet(tools) \union ToSet(names)
    <3>1. ToSet(tools) \intersect ToSet(names) = {}
      BY <2>2, <2>5, <2>6
    <3>2. tools \in Seq(Tools) /\ IsInjective(tools)
      BY DEF TypeOK, ToolsRouted
    <3>3. QED  BY <2>2, <2>3, <3>1, <3>2, ConcatSet
  <2>8. \A t \in Tools : routing'[t] = IF t \in ToSet(names) THEN s ELSE routing[t]
    BY <2>3
  <2>9. \A r \in Servers : offered'[r] = IF r = s THEN offer ELSE offered[r]
    BY <1>3, <1>8 DEF TypeOK
  <2>10. TypeOK'
    <3>1. routing' \in [Tools -> Servers \union {NoServer}]
      BY <1>3, <2>3 DEF TypeOK
    <3>2. offered' \in [Servers -> Seq(Tools)]
      BY <1>8, <2>1 DEF TypeOK
    <3>3. QED
      BY <1>4, <1>8, <2>7, <3>1, <3>2 DEF TypeOK, LoopStates, Announcements
  <2>11. ToolsRouted'
    <3>1. \A t \in Tools : t \in ToSet(tools') <=> routing'[t] # NoServer
      BY <2>4, <2>5, <2>7, <2>8
    <3>2. \A t \in ToSet(tools') : routing'[t] \in ToSet(servers)
      BY <1>3, <2>4, <2>5, <2>6, <2>7, <2>8 DEF ToolsRouted
    <3>3. QED  BY <1>4, <2>6, <2>7, <3>1, <3>2 DEF ToolsRouted
  <2>12. ServersInv'
    BY <1>4, <2>4, <2>9 DEF ServersInv
  <2>13. ASSUME NEW r \in Servers, NEW t \in ToSet(offered[r])
         PROVE  t \in Tools /\ routing[t] # NoServer
    <3>1. offered[r] \in Seq(Tools)
      BY DEF TypeOK
    <3>2. t \in Tools
      BY <3>1 DEF ToSet
    <3>3. QED  BY <2>4, <3>2 DEF ClaimedInv
  <2>14. \A t \in ToSet(offer) : t \in Tools
    BY <2>1 DEF ToSet
  <2>15. ClaimedInv'
    BY <1>8, <2>2, <2>4, <2>8, <2>9, <2>13, <2>14 DEF ClaimedInv
  <2>16. ASSUME NEW t \in Tools, routing'[t] # NoServer
         PROVE  /\ t \in ToSet(offered'[routing'[t]])
                /\ \A r \in Servers :
                     t \in ToSet(offered'[r]) => Place(routing'[t]) <= Place(r)
    <3>1. Place(s) = k + 1 /\ k + 1 \in Nat
      BY <1>3, PlaceOf
    <3>2. CASE t \in ToSet(names)
      <4>1. routing'[t] = s /\ routing[t] = NoServer /\ t \in ToSet(offer)
        BY <2>2, <2>8, <3>2
      <4>2. \A r \in Servers : t \in ToSet(offered'[r]) => r = s
        BY <2>9, <2>13, <4>1
      <4>3. QED  BY <1>3, <2>9, <3>1, <4>1, <4>2
    <3>3. CASE t \notin ToSet(names)
      <4> DEFINE o == routing[t]
      <4>1. routing'[t] = o /\ o # NoServer
        BY <2>8, <2>16, <3>3
      <4>2. o \in ToSet(servers) /\ t \in ToSet(offered[o]) /\ o \in Servers
        BY <2>5, <4>1 DEF FirstClaimer, ToolsRouted, TypeOK
      <4>3. offered[s] = <<>>
        BY <1>3, <1>6
      <4>4. o # s
        BY <4>2, <4>3 DEF ToSet
      <4>5. PICK i \in DOMAIN Config : o = Config[i]
        BY <4>2 DEF ServersInv, ToSet
      <4>6. i <= k + 1 /\ Place(o) = i
        <5>1. i \in 1..Len(Config)
          BY <2>4
        <5>2. i \in k + 1..Len(Config) => i = k + 1
          BY <1>6, <4>2, <4>5
        <5>3. QED  BY <1>3, <4>5, <5>1, <5>2, PlaceOf
      <4>7. \A r \in Servers \ {s} :
              t \in ToSet(offered'[r]) => Place(o) <= Place(r)
        BY <2>9, <4>1 DEF FirstClaimer
      <4>8. Place(o) <= Place(s)
        BY <3>1, <4>6
      <4>9. t \in ToSet(offered'[o])
        BY <2>9, <4>2, <4>4
      <4>10. QED  BY <4>1, <4>7, <4>8, <4>9
    <3>4. QED  BY <3>2, <3>3
  <2>17. LoopInv'
    <3>1. Reached(k)'
      <4>1. \A i \in k + 1..Len(Config) : Config[i] \in Servers
        <5>1. Config \in Seq(Servers)
          BY ManagerAssumption
        <5>2. QED  BY <1>3, <5>1, ElementOfSeq
      <4>2. ASSUME NEW i \in k + 1..Len(Config), offered'[Config[i]] # <<>>
            PROVE  i = k + 1
        <5>1. Config[i] = s
          BY <1>6, <2>9, <4>1, <4>2
        <5>2. i \in DOMAIN Config
          BY <1>3, <2>4
        <5>3. QED  BY <1>3, <5>1, <5>2, ManagerAssumption DEF IsInjective
      <4>3. QED
        BY <1>1, <1>3, <1>4, <1>6, <1>8, <4>2 DEF Reached, Connected
    <3>2. QED  BY <1>8, <3>1 DEF LoopInv, StartingUp
  <2>18. FirstClaimer'
    BY <2>16 DEF FirstClaimer
  <2>19. QED
    BY <1>5, <2>10, <2>11, <2>12, <2>15, <2>17, <2>18
<1>9. QED  BY <1>7, <1>8 DEF Discover

(* An event of a loop is published, or its publish raises. *)
LEMMA AnnounceStep ==
  ASSUME ManagerInv, Announce
  PROVE  ManagerInv'
<1> USE DEF ManagerInv, lifeVars, linkVars, toolVars, callVars
<1>1. /\ pc \in {"refused", "connected", "undiscovered", "discovered",
                 "stopped", "stopFailed"}
      /\ UNCHANGED <<linkVars, toolVars, callVars, started, observed>>
  BY AnnounceNext DEF Announce
<1>2. /\ CallInv' /\ CallHistory'
      /\ ServersInv' /\ ClaimedInv' /\ FirstClaimer' /\ ToolsRouted'
  BY <1>1, SameCalls, SameTools
<1>3. todo # <<>> => todo' \in Seq(Servers)
  <2>1. todo \in Seq(Servers)
    BY DEF TypeOK
  <2>2. todo # <<>> => Tail(todo) \in Seq(Servers)
    BY <2>1, HeadTailProperties
  <2>3. QED  BY <2>1, <2>2 DEF Announce
<1>4. CASE pc' = "raised" /\ UNCHANGED todo
  <2>1. LoopInv'
    BY <1>4 DEF LoopInv, StartingUp
  <2>2. TypeOK'
    BY <1>1, <1>4 DEF TypeOK, LoopStates
  <2>3. QED  BY <1>2, <2>1, <2>2
<1>5. CASE /\ pc' = Announcements[pc]
           /\ todo' = IF pc' = "discover" THEN todo ELSE Tail(todo)
  <2>1. CASE pc \in {"stopped", "stopFailed"}
    <3>1. pc' = "stop" /\ todo # <<>>
      BY <1>5, <2>1, AnnounceNext DEF Announce, LoopInv
    <3>2. LoopInv'
      BY <3>1 DEF LoopInv, StartingUp
    <3>3. TypeOK'
      BY <1>1, <1>3, <3>1 DEF TypeOK, LoopStates
    <3>4. QED  BY <1>2, <3>2, <3>3
  <2>2. CASE pc \in {"refused", "connected", "undiscovered", "discovered"}
    <3>1. PICK k \in 0..Len(Config) : Reached(k)
      BY <2>2 DEF LoopInv, StartingUp
    <3>2. k < Len(Config) /\ Len(Config) \in Nat
      BY <2>2, <3>1, ManagerAssumption DEF Reached
    <3>3. todo # <<>> /\ Tail(todo) = SubSeq(Config, k + 2, Len(Config))
      BY <3>1, <3>2, Left DEF Reached
    <3>4. CASE pc = "connected"
      <4>1. pc' = "discover" /\ todo' = todo
        BY <1>5, <3>4, AnnounceNext DEF Announce
      <4>2. Reached(k)'
        BY <1>1, <3>1, <3>2, <3>4, <4>1 DEF Reached, Connected
      <4>3. LoopInv'
        BY <4>1, <4>2 DEF LoopInv, StartingUp
      <4>4. TypeOK'
        BY <1>1, <4>1 DEF TypeOK, LoopStates
      <4>5. QED  BY <1>2, <4>3, <4>4
    <3>5. CASE pc # "connected"
      <4>1. pc' = "connect" /\ todo' = SubSeq(Config, k + 2, Len(Config))
        BY <1>5, <2>2, <3>3, <3>5, AnnounceNext DEF Announce
      <4>2. Reached(k + 1)'
        <5>1. k + 1 + 1 = k + 2
          OBVIOUS
        <5>2. \A i \in k + 2..Len(Config) : i \in k + 1..Len(Config) /\ i # k + 1
          BY <3>2
        <5>3. QED  BY <1>1, <3>1, <4>1, <5>1, <5>2 DEF Reached, Connected
      <4>3. LoopInv'
        BY <3>2, <4>1, <4>2 DEF LoopInv, StartingUp
      <4>4. TypeOK'
        BY <1>1, <1>3, <3>3, <4>1 DEF TypeOK, LoopStates
      <4>5. QED  BY <1>2, <4>3, <4>4
    <3>6. QED  BY <3>4, <3>5
  <2>3. QED  BY <1>1, <2>1, <2>2
<1>6. QED  BY <1>4, <1>5 DEF Announce

(* The other steps of the loops: they take what startup has found or clear *)
(* it.                                                                      *)
LEMMA OtherSteps ==
  ASSUME ManagerInv,
         \/ Startup \/ StartupDone \/ Observe \/ Shutdown
         \/ StopServer \/ ServerStopped \/ ShutdownDone
  PROVE  ManagerInv'
<1> USE DEF ManagerInv, lifeVars, linkVars, toolVars, callVars
<1>1. CASE Startup
  <2>1. UNCHANGED <<linkVars, toolVars, callVars, started, observed>>
        /\ pc = "new" /\ pc' = "connect" /\ todo' = Config
    BY <1>1 DEF Startup
  <2>2. /\ CallInv' /\ CallHistory'
        /\ ServersInv' /\ ClaimedInv' /\ FirstClaimer' /\ ToolsRouted'
    BY <2>1, SameCalls, SameTools
  <2>3. Config \in Seq(Servers) /\ Len(Config) \in Nat
    BY ManagerAssumption
  <2>4. Reached(0)'
    <3>1. Config = SubSeq(Config, 1, Len(Config))
      BY <2>3, SubSeqFull
    <3>2. \A i \in 1..Len(Config) : Config[i] \in Servers
      BY <2>3, ElementOfSeq
    <3>3. ToSet(servers) = {} /\ \A s \in Servers : offered[s] = <<>>
      BY <2>1 DEF LoopInv
    <3>4. QED  BY <2>1, <3>1, <3>2, <3>3 DEF Reached, Connected
  <2>5. LoopInv'
    BY <2>1, <2>3, <2>4 DEF LoopInv, StartingUp
  <2>6. TypeOK'
    BY <2>1, <2>3 DEF TypeOK, LoopStates
  <2>7. QED  BY <2>2, <2>5, <2>6
<1>2. CASE StartupDone \/ Observe \/ Shutdown
  <2>1. /\ UNCHANGED <<linkVars, toolVars, callVars>>
        /\ pc \in {"connect", "up"} /\ pc' \in {"up", "stop"}
        /\ todo' \in {todo, servers}
        /\ started' \in BOOLEAN /\ observed' \in BOOLEAN
    BY <1>2 DEF StartupDone, Observe, Shutdown, TypeOK
  <2>2. /\ CallInv' /\ CallHistory'
        /\ ServersInv' /\ ClaimedInv' /\ FirstClaimer' /\ ToolsRouted'
    BY <2>1, SameCalls, SameTools
  <2>3. LoopInv'
    BY <2>1 DEF LoopInv, StartingUp
  <2>4. TypeOK'
    BY <2>1 DEF TypeOK, LoopStates
  <2>5. QED  BY <2>2, <2>3, <2>4
<1>3. CASE StopServer \/ ServerStopped
  <2>1. /\ UNCHANGED <<servers, toolVars, callVars, todo, started, observed>>
        /\ pc \in {"stop", "close"} /\ pc' \in {"close", "stopped", "stopFailed"}
        /\ link' \in [Servers -> LinkStates]
        /\ todo # <<>>
    <3>1. CASE StopServer
      BY <3>1 DEF StopServer, TypeOK, LinkStates
    <3>2. CASE ServerStopped
      BY <3>2 DEF ServerStopped, TypeOK, LinkStates, LoopInv
    <3>3. QED  BY <1>3, <3>1, <3>2
  <2>2. /\ CallInv' /\ CallHistory'
        /\ ServersInv' /\ ClaimedInv' /\ FirstClaimer' /\ ToolsRouted'
    BY <2>1, SameCalls, SameTools
  <2>3. LoopInv'
    BY <2>1 DEF LoopInv, StartingUp
  <2>4. TypeOK'
    BY <2>1 DEF TypeOK, LoopStates, Announcements
  <2>5. QED  BY <2>2, <2>3, <2>4
<1>4. CASE ShutdownDone
  <2>1. /\ UNCHANGED <<callVars, todo, observed, link, offered>>
        /\ pc' = "down" /\ started' = FALSE /\ servers' = <<>>
        /\ routing' = [t \in Tools |-> NoServer] /\ tools' = <<>>
    BY <1>4 DEF ShutdownDone
  <2>2. CallInv' /\ CallHistory'
    BY <2>1, SameCalls
  <2>3. ToSet(<<>>) = {} /\ IsInjective(<<>>)
    BY DEF ToSet, IsInjective
  <2>4. ServersInv' /\ ClaimedInv' /\ FirstClaimer' /\ ToolsRouted'
    BY <2>1, <2>3 DEF ServersInv, ClaimedInv, FirstClaimer, ToolsRouted
  <2>5. LoopInv'
    BY <2>1 DEF LoopInv, StartingUp
  <2>6. servers' \in Seq(Servers) /\ IsInjective(servers') /\ tools' \in Seq(Tools)
    BY <2>1, <2>3
  <2>7. routing' \in [Tools -> Servers \union {NoServer}]
    BY <2>1
  <2>8. TypeOK'
    BY <2>1, <2>6, <2>7 DEF TypeOK, LoopStates
  <2>9. QED  BY <2>2, <2>4, <2>5, <2>8
<1>5. QED  BY <1>1, <1>2, <1>3, <1>4

-----------------------------------------------------------------------------
(* The steps of the calls keep the invariant.                               *)

(* The publishes of a call. *)
LEMMA ReportNext ==
  /\ Reports["announce"].event = "called" /\ Reports["announce"].next = "run"
  /\ Reports["report"].event = "completed" /\ Reports["report"].next = "ok"
  /\ Reports["complain"].event = "failed" /\ Reports["complain"].next = "error"
  /\ DOMAIN Reports = {"announce", "report", "complain"}
  /\ CallStates = {"idle", "announce", "run", "await", "report", "complain",
                   "ok", "error"}
BY DEF Reports, CallStates

(* What the store has of a call, before and after its next event. *)
LEMMA LogNext ==
  /\ Append(<<>>, "called") = <<"called">>
  /\ Append(<<"called">>, "completed") = <<"called", "completed">>
  /\ Append(<<"called">>, "failed") = <<"called", "failed">>
  /\ ToSet(<<>>) = {} /\ ToSet(<<"called">>) = {"called"}
  /\ ToSet(<<"called", "completed">>) = {"called", "completed"}
  /\ ToSet(<<"called", "failed">>) = {"called", "failed"}
  /\ <<"called">> # <<>> /\ <<"called", "completed">> # <<>>
  /\ <<"called", "failed">> # <<>>
  /\ <<"called">> # <<"called", "completed">>
  /\ <<"called">> # <<"called", "failed">>
  /\ <<"called", "completed">> # <<"called", "failed">>
<1>1. ToSet(<<"called">>) = {<<"called">>[i] : i \in 1..1}
  BY DEF ToSet
<1>2. \A e : ToSet(<<"called", e>>) = {<<"called", e>>[i] : i \in 1..2}
  BY DEF ToSet
<1>3. ToSet(<<>>) = {}
  BY DEF ToSet
<1>4. /\ ToSet(<<"called">>) = {"called"}
      /\ ToSet(<<"called", "completed">>) = {"called", "completed"}
      /\ ToSet(<<"called", "failed">>) = {"called", "failed"}
  BY <1>1, <1>2
<1>5. /\ Append(<<>>, "called") = <<"called">>
      /\ Append(<<"called">>, "completed") = <<"called", "completed">>
      /\ Append(<<"called">>, "failed") = <<"called", "failed">>
  <2>1. Append(<<>>, "called") = <<"called">>
    OBVIOUS
  <2> DEFINE S == {"called", "completed", "failed"}
  <2>2. ASSUME NEW d \in S
        PROVE  Append(<<"called">>, d) = <<"called", d>>
    <3>1. <<"called">> \in Seq(S) /\ Len(<<"called">>) = 1
      OBVIOUS
    <3>2. <<"called", d>> \in Seq(S) /\ Len(<<"called", d>>) = 2
      OBVIOUS
    <3>3. /\ Append(<<"called">>, d) \in Seq(S)
          /\ Len(Append(<<"called">>, d)) = 2
          /\ Append(<<"called">>, d)[1] = "called"
          /\ Append(<<"called">>, d)[2] = d
      BY <3>1, AppendProperties
    <3> DEFINE a == Append(<<"called">>, d)
               b == <<"called", d>>
    <3>4. a \in Seq(S) /\ b \in Seq(S) /\ Len(a) = 2 /\ Len(b) = 2
      BY <3>2, <3>3
    <3>5. a[1] = b[1] /\ a[2] = b[2]
      BY <3>3
    <3> HIDE DEF a, b, S
    <3>6. \A i \in 1..Len(a) : i = 1 \/ i = 2
      BY <3>4
    <3>7. a = b
      BY <3>4, <3>5, <3>6, SeqEqual
    <3>8. QED  BY <3>7 DEF a, b
  <2>3. QED  BY <2>1, <2>2
<1>6. /\ <<"called">> # <<>> /\ <<"called", "completed">> # <<>>
      /\ <<"called", "failed">> # <<>>
      /\ <<"called">> # <<"called", "completed">>
      /\ <<"called">> # <<"called", "failed">>
      /\ <<"called", "completed">> # <<"called", "failed">>
  OBVIOUS
<1>7. QED  BY <1>3, <1>4, <1>5, <1>6

(* One call: its state, whether its server answered, and its log. *)
CallOK(c) ==
  /\ call[c] \in CallStates
  /\ answered[c] \in BOOLEAN
  /\ log[c] \in {<<>>, <<"called">>, <<"called", "completed">>,
                 <<"called", "failed">>}
  /\ call[c] \in {"idle", "announce"} => log[c] = <<>> /\ ~ answered[c]
  /\ call[c] \in {"run", "await", "complain"} =>
       log[c] = <<"called">> /\ ~ answered[c]
  /\ call[c] = "report" => log[c] = <<"called">> /\ answered[c]
  /\ call[c] = "ok" => log[c] = <<"called", "completed">>
  /\ log[c] = <<"called", "completed">> => answered[c]
  /\ log[c] = <<"called", "failed">> => ~ answered[c]

(* The invariant, call by call. *)
LEMMA CallByCall ==
  ASSUME TypeOK
  PROVE  CallInv /\ CallHistory <=> \A c \in Calls : CallOK(c)
<1>1. ASSUME CallInv, CallHistory, NEW c \in Calls
      PROVE  CallOK(c)
  BY <1>1, LogNext DEF CallInv, CallHistory, CallOK, TypeOK
<1>2. ASSUME \A c \in Calls : CallOK(c)
      PROVE  CallInv /\ CallHistory
  BY <1>2, LogNext DEF CallInv, CallHistory, CallOK
<1>3. QED  BY <1>1, <1>2

(* One step of one call. *)
LEMMA CallSteps ==
  ASSUME ManagerInv, NEW c \in Calls,
         CallStep(c) \/ \E t \in Tools : Route(c, t)
  PROVE  ManagerInv'
<1> USE DEF ManagerInv, lifeVars, linkVars, toolVars
<1>1. UNCHANGED <<lifeVars, linkVars, toolVars>>
  BY DEF CallStep, Report, Send, ToolEnds, Route
<1>2. /\ LoopInv' /\ ServersInv' /\ ClaimedInv' /\ FirstClaimer' /\ ToolsRouted'
  BY <1>1 DEF LoopInv, Reached, ServersInv, ClaimedInv, FirstClaimer, ToolsRouted
<1>3. \A d \in Calls : CallOK(d)
  BY CallByCall
<1>4. /\ \A d \in Calls \ {c} : /\ call'[d] = call[d] /\ log'[d] = log[d]
                                /\ answered'[d] = answered[d]
      /\ call' = [call EXCEPT ![c] = call'[c]]
      /\ log' = [log EXCEPT ![c] = log'[c]]
      /\ answered' = [answered EXCEPT ![c] = answered'[c]]
  BY DEF CallStep, Report, Send, ToolEnds, Route, TypeOK
<1>11. answered[c] \in BOOLEAN
  BY DEF TypeOK
<1>5. CallOK(c)'
  <2>1. CASE Report(c)
    <3>1. /\ answered' = answered /\ call[c] \in DOMAIN Reports
          /\ \/ /\ log'[c] = Append(log[c], Reports[call[c]].event)
                /\ call'[c] = Reports[call[c]].next
             \/ /\ \/ log'[c] = log[c]
                   \/ log'[c] = Append(log[c], Reports[call[c]].event)
                /\ call'[c] = "error"
      BY <2>1 DEF Report, TypeOK
    <3>2. CallOK(c)
      BY <1>3
    <3>3. CASE call[c] = "announce"
      <4>1. log[c] = <<>> /\ ~ answered[c]
        BY <3>2, <3>3 DEF CallOK
      <4>2. /\ log'[c] \in {<<>>, <<"called">>}
            /\ call'[c] = "error" \/ (call'[c] = "run" /\ log'[c] = <<"called">>)
        BY <3>1, <3>3, <4>1, ReportNext, LogNext
      <4>3. QED
        BY <1>11, <3>1, <4>1, <4>2, ReportNext, LogNext DEF CallOK
    <3>4. CASE call[c] = "report"
      <4>1. log[c] = <<"called">> /\ answered[c]
        BY <3>2, <3>4 DEF CallOK
      <4>2. /\ log'[c] \in {<<"called">>, <<"called", "completed">>}
            /\ \/ call'[c] = "error"
               \/ call'[c] = "ok" /\ log'[c] = <<"called", "completed">>
        BY <3>1, <3>4, <4>1, ReportNext, LogNext
      <4>3. QED
        BY <1>11, <3>1, <4>1, <4>2, ReportNext, LogNext DEF CallOK
    <3>5. CASE call[c] = "complain"
      <4>1. log[c] = <<"called">> /\ ~ answered[c]
        BY <3>2, <3>5 DEF CallOK
      <4>2. /\ log'[c] \in {<<"called">>, <<"called", "failed">>}
            /\ call'[c] = "error"
        BY <3>1, <3>5, <4>1, ReportNext, LogNext
      <4>3. QED
        BY <1>11, <3>1, <4>1, <4>2, ReportNext, LogNext DEF CallOK
    <3>6. QED  BY <3>1, <3>3, <3>4, <3>5, ReportNext
  <2>2. CASE Send(c)
    BY <2>2, <1>3 DEF Send, CallOK, CallStates, Reports, TypeOK
  <2>3. CASE ToolEnds(c)
    <3>1. call[c] = "await" /\ log[c] = <<"called">> /\ ~ answered[c]
      BY <1>3, <2>3 DEF ToolEnds, CallOK
    <3>2. /\ log' = log
          /\ \/ answered'[c] = TRUE /\ call'[c] = "report"
             \/ answered' = answered /\ call'[c] = "complain"
      BY <2>3 DEF ToolEnds, TypeOK
    <3>3. CASE answered'[c] = TRUE /\ call'[c] = "report"
      BY <3>1, <3>2, <3>3, ReportNext, LogNext DEF CallOK
    <3>4. CASE answered' = answered /\ call'[c] = "complain"
      BY <1>11, <3>1, <3>2, <3>4, ReportNext, LogNext DEF CallOK
    <3>5. QED  BY <3>2, <3>3, <3>4
  <2>4. CASE \E t \in Tools : Route(c, t)
    BY <2>4, <1>3 DEF Route, CallOK, CallStates, Reports, TypeOK
  <2>5. QED  BY <2>1, <2>2, <2>3, <2>4 DEF CallStep
<1>6. \A d \in Calls : CallOK(d)'
  BY <1>3, <1>4, <1>5 DEF CallOK
<1>7. TypeOK'
  <2>1. /\ call' \in [Calls -> CallStates]
        /\ answered' \in [Calls -> BOOLEAN]
    BY <1>4, <1>5 DEF TypeOK, CallOK
  <2>2. log' \in [Calls -> Seq({"called", "completed", "failed"})]
    <3>1. log'[c] \in Seq({"called", "completed", "failed"})
      <4>1. /\ <<>> \in Seq({"called", "completed", "failed"})
            /\ <<"called">> \in Seq({"called", "completed", "failed"})
            /\ <<"called", "completed">> \in Seq({"called", "completed", "failed"})
            /\ <<"called", "failed">> \in Seq({"called", "completed", "failed"})
        OBVIOUS
      <4>2. log'[c] \in {<<>>, <<"called">>, <<"called", "completed">>,
                         <<"called", "failed">>}
        BY <1>5 DEF CallOK
      <4>3. QED  BY <4>1, <4>2
    <3>2. QED  BY <1>4, <3>1 DEF TypeOK
  <2>3. target' \in [Calls -> Servers \union {NoServer}]
    BY DEF CallStep, Report, Send, ToolEnds, Route, TypeOK
  <2>4. QED  BY <1>1, <2>1, <2>2, <2>3 DEF TypeOK
<1>8. CallInv' /\ CallHistory'
  BY <1>6, LogNext DEF CallInv, CallHistory, CallOK
<1>9. QED  BY <1>2, <1>7, <1>8

-----------------------------------------------------------------------------
(* The initial states satisfy the invariant. *)
LEMMA ManagerInit == Init => ManagerInv
<1> SUFFICES ASSUME Init PROVE ManagerInv
  OBVIOUS
<1> USE DEF Init
<1>1. ToSet(<<>>) = {} /\ IsInjective(<<>>)
  BY DEF ToSet, IsInjective
<1>2. TypeOK
  <2>1. servers \in Seq(Servers) /\ IsInjective(servers) /\ tools \in Seq(Tools)
    BY <1>1
  <2>2. call \in [Calls -> CallStates] /\ link \in [Servers -> LinkStates]
    BY DEF CallStates, LinkStates
  <2>3. /\ routing \in [Tools -> Servers \union {NoServer}]
        /\ target \in [Calls -> Servers \union {NoServer}]
        /\ answered \in [Calls -> BOOLEAN]
    OBVIOUS
  <2>4. /\ log \in [Calls -> Seq({"called", "completed", "failed"})]
        /\ offered \in [Servers -> Seq(Tools)]
    OBVIOUS
  <2>5. pc \in LoopStates /\ todo \in Seq(Servers)
    BY DEF LoopStates
  <2>6. QED  BY <2>1, <2>2, <2>3, <2>4, <2>5 DEF TypeOK
<1>3. LoopInv /\ ServersInv /\ ClaimedInv /\ FirstClaimer
  BY <1>1 DEF LoopInv, StartingUp, ServersInv, ClaimedInv, FirstClaimer
<1>4. ToolsRouted
  BY <1>1 DEF ToolsRouted
<1>5. CallInv /\ CallHistory
  BY <1>1 DEF CallInv, CallHistory
<1>6. QED  BY <1>2, <1>3, <1>4, <1>5 DEF ManagerInv

(* Every step keeps it. *)
LEMMA ManagerNext == ManagerInv /\ [Next]_vars => ManagerInv'
<1> SUFFICES ASSUME ManagerInv, [Next]_vars PROVE ManagerInv'
  OBVIOUS
<1>1. CASE Connect  BY <1>1, ConnectStep
<1>2. CASE Discover  BY <1>2, DiscoverStep
<1>3. CASE Announce  BY <1>3, AnnounceStep
<1>4. CASE \/ Startup \/ StartupDone \/ Observe \/ Shutdown
           \/ StopServer \/ ServerStopped \/ ShutdownDone
  BY <1>4, OtherSteps
<1>5. CASE \E c \in Calls : CallStep(c) \/ \E t \in Tools : Route(c, t)
  BY <1>5, CallSteps
<1>6. CASE UNCHANGED vars
  BY <1>6 DEF vars, lifeVars, linkVars, toolVars, callVars, ManagerInv, TypeOK,
     LoopInv, Reached, ServersInv, ClaimedInv, FirstClaimer, ToolsRouted, CallInv,
     CallHistory
<1>7. QED
  BY <1>1, <1>2, <1>3, <1>4, <1>5, <1>6 DEF Next, ManagerStep

(* The loop of startup, the servers, the claims and the calls fit together *)
(* in every reachable state.                                                *)
THEOREM ManagerInvariant == Spec => []ManagerInv
<1>1. QED  BY ManagerInit, ManagerNext, PTL DEF Spec

(* Types: the state stays of the shape the code gives it, and no server is *)
(* connected twice.                                                         *)
THEOREM TypeCorrect == Spec => []TypeOK
<1>1. ManagerInv => TypeOK
  BY DEF ManagerInv
<1>2. QED  BY <1>1, ManagerInvariant, PTL

(* A tool belongs to the first server of the configuration that offered it: *)
(* whatever the servers answer, and whichever of them fail.                 *)
THEOREM FirstClaimerHolds == Spec => []FirstClaimer
<1>1. ManagerInv => FirstClaimer
  BY DEF ManagerInv
<1>2. QED  BY <1>1, ManagerInvariant, PTL

(* The model is offered every tool once, and only tools that can be routed. *)
THEOREM ToolsRoutedHolds == Spec => []ToolsRouted
<1>1. ManagerInv => ToolsRouted
  BY DEF ManagerInv
<1>2. QED  BY <1>1, ManagerInvariant, PTL

(* The store tells of a tool call what happened, for any number of calls    *)
(* that run at once and overlap the shutdown.                               *)
THEOREM CallHistoryHolds == Spec => []CallHistory
<1>1. ManagerInv => CallHistory
  BY DEF ManagerInv
<1>2. QED  BY <1>1, ManagerInvariant, PTL
=============================================================================
