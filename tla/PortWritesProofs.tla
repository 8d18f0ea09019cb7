-------------------------- MODULE PortWritesProofs --------------------------
(***************************************************************************)
(* Theorems about PortWrites for any ports, VLANs, users and vendors: that *)
(* VLAN bitmaps stay consistent, that a manual link spares its port, and   *)
(* that what is cut returns.                                               *)
(***************************************************************************)
EXTENDS PortWrites, SequenceTheorems, WellFoundedInduction, TLAPS

-----------------------------------------------------------------------------
(* What a request's list is made of. *)

What == Port \X {"admin", "power"}
VlanValue == VLAN \cup {Trunked}
Edit == [port : Port, allowed : SUBSET VLAN, left : (SUBSET VLAN) \ {{}}]
Write == [port : Port, vlan : VLAN, member : BOOLEAN, egress : SUBSET Port, untagged : SUBSET Port]
RowChange ==
    [port : Port, field : {"admin"}, value : BOOLEAN] \cup [port : Port, field : {"vlan"}, value : VlanValue]
RowType == [admin : BOOLEAN, vlan : VlanValue]

SessionStatement == [op : {"take", "free"}, arg : {None}]
PortStatement ==
    SessionStatement
    \cup [op : {"guard"}, arg : [port : Port, force : BOOLEAN]]
    \cup [op : {"off"}, arg : [what : What, force : BOOLEAN, back : BOOLEAN]]
    \cup [op : {"on"}, arg : What]
    \cup [op : {"vlan"}, arg : [port : Port, vlan : VlanValue]]
    \cup [op : {"vlans"}, arg : Edit]
    \cup [op : {"write"}, arg : Write]
    \cup [op : {"row"}, arg : RowChange]
    \cup [op : {"each"}, arg : [ports : SUBSET Port, vlan : VLAN]]
RefreshStatement ==
    SessionStatement
    \cup [op : {"ports", "neighbours"}, arg : {None}]
    \cup [op : {"upsert"}, arg : [Port -> RowType]]
    \cup [op : {"clear", "insert"}, arg : SUBSET Port]
Statement == PortStatement \cup RefreshStatement

StatementsOf(a) == IF a = "refresh" THEN RefreshStatement ELSE PortStatement

\* How a list is laid out: the guard comes first, a session taken is given back, what goes
\* off to come back comes back next, a bulk edit's rest is last, bitmaps are written
\* before the next are read.
Shape(list) ==
    \A i \in 1 .. Len(list) :
        /\ list[i].op = "guard" => i = 1
        /\ list[i].op = "take" => \E j \in i + 1 .. Len(list) : list[j].op = "free"
        /\ list[i].op = "off" /\ list[i].arg.back =>
              i < Len(list) /\ list[i + 1].op = "on" /\ list[i + 1].arg = list[i].arg.what
        /\ list[i].op = "each" => i = Len(list)
        /\ list[i].op = "write" => i = 1
        /\ list[i].op = "vlans" => i = 1 \/ (i = 2 /\ list[1].op = "write")

ListInv ==
    /\ todo \in [Actor -> Seq(Statement)]
    /\ \A a \in Actor : todo[a] \in Seq(StatementsOf(a)) /\ Shape(todo[a])

Elements(list) == {list[i] : i \in 1 .. Len(list)}

-----------------------------------------------------------------------------
(* Sequences. *)

LEMMA Smallest ==
    ASSUME NEW T, T \subseteq Nat, T # {}
    PROVE  \E i \in T : \A k \in T : i <= k
  <1>1. PICK i \in T : \A k \in T : <<k, i>> \notin OpToRel(<, Nat)
    BY NatLessThanWellFounded, WFMin
  <1>2. \A k \in T : ~(k < i)
    BY <1>1 DEF OpToRel
  <1>3. \A k \in T : k \in Nat /\ i \in Nat
    OBVIOUS
  <1>4. \A k \in T : i <= k
    BY <1>2, <1>3
  <1> QED BY <1>4

LEMMA ElementsAreTyped ==
    ASSUME NEW S, NEW list \in Seq(S)
    PROVE  Elements(list) \subseteq S
  BY ElementOfSeq DEF Elements

LEMMA ElementsOfEmpty == Elements(<< >>) = {}
  BY DEF Elements

LEMMA ElementsOfOne ==
    ASSUME NEW x
    PROVE  Elements(<<x>>) = {x}
  BY DEF Elements

LEMMA ElementsOfTail ==
    ASSUME NEW S, NEW list \in Seq(S), list # << >>
    PROVE  Elements(list) = {Head(list)} \cup Elements(Tail(list))
  <1>1. /\ Len(list) \in Nat /\ Len(list) # 0 /\ Head(list) = list[1]
        /\ Len(Tail(list)) = Len(list) - 1
        /\ \A i \in 1 .. Len(list) - 1 : Tail(list)[i] = list[i + 1]
    BY LenProperties, HeadTailProperties, EmptySeq
  <1>2. ASSUME NEW x \in Elements(list)
        PROVE  x \in {Head(list)} \cup Elements(Tail(list))
    <2>1. PICK i \in 1 .. Len(list) : x = list[i]
      BY DEF Elements
    <2>2. CASE i = 1
      BY <1>1, <2>1, <2>2
    <2>3. CASE i # 1
      <3>1. i - 1 \in 1 .. Len(Tail(list)) /\ Tail(list)[i - 1] = list[i]
        BY <1>1, <2>3
      <3> QED BY <2>1, <3>1 DEF Elements
    <2> QED BY <2>2, <2>3
  <1>3. Head(list) \in Elements(list)
    BY <1>1 DEF Elements
  <1>4. ASSUME NEW x \in Elements(Tail(list))
        PROVE  x \in Elements(list)
    <2>1. PICK i \in 1 .. Len(Tail(list)) : x = Tail(list)[i]
      BY DEF Elements
    <2>2. i + 1 \in 1 .. Len(list) /\ x = list[i + 1]
      BY <1>1, <2>1
    <2> QED BY <2>2 DEF Elements
  <1> QED BY <1>2, <1>3, <1>4

LEMMA ElementsOfConcat ==
    ASSUME NEW S, NEW s \in Seq(S), NEW t \in Seq(S)
    PROVE  Elements(s \o t) = Elements(s) \cup Elements(t)
  <1>1. /\ Len(s) \in Nat /\ Len(t) \in Nat /\ Len(s \o t) = Len(s) + Len(t)
        /\ \A i \in 1 .. Len(s) + Len(t) : (s \o t)[i] = IF i <= Len(s) THEN s[i] ELSE t[i - Len(s)]
    BY LenProperties, ConcatProperties
  <1>2. ASSUME NEW x \in Elements(s \o t)
        PROVE  x \in Elements(s) \cup Elements(t)
    <2>1. PICK i \in 1 .. Len(s) + Len(t) : x = (s \o t)[i]
      BY <1>1 DEF Elements
    <2>2. CASE i <= Len(s)
      <3>1. i \in 1 .. Len(s) /\ x = s[i]
        BY <1>1, <2>1, <2>2
      <3> QED BY <3>1 DEF Elements
    <2>3. CASE ~(i <= Len(s))
      <3>1. i - Len(s) \in 1 .. Len(t) /\ x = t[i - Len(s)]
        BY <1>1, <2>1, <2>3
      <3> QED BY <3>1 DEF Elements
    <2> QED BY <2>2, <2>3
  <1>3. ASSUME NEW x \in Elements(s)
        PROVE  x \in Elements(s \o t)
    <2>1. PICK i \in 1 .. Len(s) : x = s[i]
      BY DEF Elements
    <2>2. i \in 1 .. Len(s \o t) /\ (s \o t)[i] = x
      BY <1>1, <2>1
    <2> QED BY <2>2 DEF Elements
  <1>4. ASSUME NEW x \in Elements(t)
        PROVE  x \in Elements(s \o t)
    <2>1. PICK i \in 1 .. Len(t) : x = t[i]
      BY DEF Elements
    <2>2. i + Len(s) \in 1 .. Len(s \o t) /\ (s \o t)[i + Len(s)] = x
      BY <1>1, <2>1
    <2> QED BY <2>2 DEF Elements
  <1> QED BY <1>2, <1>3, <1>4

LEMMA Two ==
    ASSUME NEW S, NEW u \in S, NEW v \in S
    PROVE  /\ <<u, v>> \in Seq(S) /\ Len(<<u, v>>) = 2 /\ <<u, v>> # << >>
           /\ <<u, v>>[1] = u /\ <<u, v>>[2] = v
           /\ Elements(<<u, v>>) = {u, v}
  <1>1. /\ <<u, v>> \in Seq(S) /\ Len(<<u, v>>) = 2 /\ <<u, v>> # << >>
        /\ <<u, v>>[1] = u /\ <<u, v>>[2] = v
    OBVIOUS
  <1>2. 1 .. 2 = {1, 2}
    OBVIOUS
  <1>3. Elements(<<u, v>>) = {u, v}
    BY <1>1, <1>2 DEF Elements
  <1> QED BY <1>1, <1>3

LEMMA Three ==
    ASSUME NEW S, NEW u \in S, NEW v \in S, NEW x \in S
    PROVE  /\ <<u, v, x>> \in Seq(S) /\ Len(<<u, v, x>>) = 3 /\ <<u, v, x>> # << >>
           /\ <<u, v, x>>[1] = u /\ <<u, v, x>>[2] = v /\ <<u, v, x>>[3] = x
           /\ Elements(<<u, v, x>>) = {u, v, x}
  <1>1. /\ <<u, v, x>> \in Seq(S) /\ Len(<<u, v, x>>) = 3 /\ <<u, v, x>> # << >>
        /\ <<u, v, x>>[1] = u /\ <<u, v, x>>[2] = v /\ <<u, v, x>>[3] = x
    OBVIOUS
  <1>2. 1 .. 3 = {1, 2, 3}
    OBVIOUS
  <1>3. Elements(<<u, v, x>>) = {u, v, x}
    BY <1>1, <1>2 DEF Elements
  <1> QED BY <1>1, <1>3

LEMMA Four ==
    ASSUME NEW S, NEW u \in S, NEW v \in S, NEW x \in S, NEW y \in S
    PROVE  /\ <<u, v, x, y>> \in Seq(S) /\ Len(<<u, v, x, y>>) = 4 /\ <<u, v, x, y>> # << >>
           /\ <<u, v, x, y>>[1] = u /\ <<u, v, x, y>>[2] = v /\ <<u, v, x, y>>[3] = x
           /\ <<u, v, x, y>>[4] = y
           /\ Elements(<<u, v, x, y>>) = {u, v, x, y}
  <1>1. /\ <<u, v, x, y>> \in Seq(S) /\ Len(<<u, v, x, y>>) = 4 /\ <<u, v, x, y>> # << >>
        /\ <<u, v, x, y>>[1] = u /\ <<u, v, x, y>>[2] = v /\ <<u, v, x, y>>[3] = x
        /\ <<u, v, x, y>>[4] = y
    OBVIOUS
  <1>2. 1 .. 4 = {1, 2, 3, 4}
    OBVIOUS
  <1>3. Elements(<<u, v, x, y>>) = {u, v, x, y}
    BY <1>1, <1>2 DEF Elements
  <1> QED BY <1>1, <1>3

LEMMA Five ==
    ASSUME NEW S, NEW u \in S, NEW v \in S, NEW x \in S, NEW y \in S, NEW z \in S
    PROVE  /\ <<u, v, x, y, z>> \in Seq(S) /\ Len(<<u, v, x, y, z>>) = 5 /\ <<u, v, x, y, z>> # << >>
           /\ <<u, v, x, y, z>>[1] = u /\ <<u, v, x, y, z>>[2] = v /\ <<u, v, x, y, z>>[3] = x
           /\ <<u, v, x, y, z>>[4] = y /\ <<u, v, x, y, z>>[5] = z
           /\ Elements(<<u, v, x, y, z>>) = {u, v, x, y, z}
  <1>1. /\ <<u, v, x, y, z>> \in Seq(S) /\ Len(<<u, v, x, y, z>>) = 5 /\ <<u, v, x, y, z>> # << >>
        /\ <<u, v, x, y, z>>[1] = u /\ <<u, v, x, y, z>>[2] = v /\ <<u, v, x, y, z>>[3] = x
        /\ <<u, v, x, y, z>>[4] = y /\ <<u, v, x, y, z>>[5] = z
    OBVIOUS
  <1>2. 1 .. 5 = {1, 2, 3, 4, 5}
    OBVIOUS
  <1>3. Elements(<<u, v, x, y, z>>) = {u, v, x, y, z}
    BY <1>1, <1>2 DEF Elements
  <1> QED BY <1>1, <1>3

\* A list that starts with no guard and no bitmaps: it may follow another.
Mild(list) == \A i \in 1 .. Len(list) : list[i].op \notin {"guard", "write", "vlans"}

LEMMA ShapeOfTail ==
    ASSUME NEW S, NEW list \in Seq(S), list # << >>, Shape(list)
    PROVE  /\ Shape(Tail(list))
           /\ \A i \in 1 .. Len(Tail(list)) : Tail(list)[i].op \notin {"guard", "write"}
           /\ Head(list).op # "write" => Mild(Tail(list))
           /\ Head(list).op = "each" => Tail(list) = << >>
  <1> DEFINE t == Tail(list)
  <1>1. /\ Len(list) \in Nat /\ Len(list) # 0 /\ Head(list) = list[1] /\ 1 \in 1 .. Len(list)
        /\ Len(t) = Len(list) - 1 /\ t \in Seq(S)
        /\ \A i \in 1 .. Len(t) : t[i] = list[i + 1] /\ i + 1 \in 1 .. Len(list)
    BY LenProperties, HeadTailProperties, EmptySeq
  <1> HIDE DEF t
  <1>2. \A i \in 1 .. Len(t) : t[i].op \notin {"guard", "write"}
    BY <1>1 DEF Shape
  <1>3. ASSUME NEW i \in 1 .. Len(t)
        PROVE  /\ t[i].op = "guard" => i = 1
               /\ t[i].op = "take" => \E j \in i + 1 .. Len(t) : t[j].op = "free"
               /\ t[i].op = "off" /\ t[i].arg.back =>
                     i < Len(t) /\ t[i + 1].op = "on" /\ t[i + 1].arg = t[i].arg.what
               /\ t[i].op = "each" => i = Len(t)
               /\ t[i].op = "write" => i = 1
               /\ t[i].op = "vlans" => i = 1 \/ (i = 2 /\ t[1].op = "write")
    <2>1. t[i] = list[i + 1] /\ i + 1 \in 1 .. Len(list)
      BY <1>1
    <2>2. t[i].op = "take" => \E j \in i + 1 .. Len(t) : t[j].op = "free"
      <3>1. HAVE t[i].op = "take"
      <3>2. PICK k \in i + 1 + 1 .. Len(list) : list[k].op = "free"
        BY <2>1, <3>1 DEF Shape
      <3>3. k - 1 \in i + 1 .. Len(t) /\ t[k - 1] = list[k]
        BY <1>1, <3>2
      <3> QED BY <3>2, <3>3
    <2>3. t[i].op = "off" /\ t[i].arg.back =>
             i < Len(t) /\ t[i + 1].op = "on" /\ t[i + 1].arg = t[i].arg.what
      <3>1. HAVE t[i].op = "off" /\ t[i].arg.back
      <3>2. i + 1 < Len(list) /\ list[i + 1 + 1].op = "on" /\ list[i + 1 + 1].arg = list[i + 1].arg.what
        BY <2>1, <3>1 DEF Shape
      <3>3. i < Len(t) /\ i + 1 \in 1 .. Len(t)
        BY <1>1, <3>2
      <3>4. t[i + 1] = list[i + 1 + 1]
        BY <1>1, <3>3
      <3> QED BY <2>1, <3>2, <3>3, <3>4
    <2>4. t[i].op = "each" => i = Len(t)
      BY <1>1, <2>1 DEF Shape
    <2>5. t[i].op = "vlans" => i = 1
      BY <1>1, <2>1 DEF Shape
    <2> QED BY <1>2, <2>2, <2>3, <2>4, <2>5
  <1>4. Shape(t)
    BY <1>3 DEF Shape
  <1>5. Head(list).op # "write" => Mild(t)
    <2>1. ASSUME NEW i \in 1 .. Len(t), t[i].op = "vlans"
          PROVE  list[1].op = "write"
      <3>1. t[i] = list[i + 1] /\ i + 1 \in 1 .. Len(list)
        BY <1>1
      <3>2. i + 1 = 1 \/ (i + 1 = 2 /\ list[1].op = "write")
        BY <2>1, <3>1 DEF Shape
      <3> QED BY <3>2
    <2> QED BY <1>1, <1>2, <2>1 DEF Mild
  <1>6. Head(list).op = "each" => t = << >>
    <2>1. HAVE Head(list).op = "each"
    <2>2. Len(t) = 0
      BY <1>1, <2>1 DEF Shape
    <2> QED BY <1>1, <2>2, EmptySeq
  <1> QED BY <1>2, <1>4, <1>5, <1>6 DEF t

LEMMA ShapeOfConcat ==
    ASSUME NEW S, NEW s \in Seq(S), NEW t \in Seq(S), Shape(s), Shape(t), Mild(t),
           \A i \in 1 .. Len(s) : s[i].op # "each"
    PROVE  Shape(s \o t)
  <1> DEFINE l == s \o t
  <1>1. /\ Len(s) \in Nat /\ Len(t) \in Nat /\ Len(l) = Len(s) + Len(t)
        /\ \A i \in 1 .. Len(s) : l[i] = s[i]
        /\ \A i \in 1 .. Len(t) : l[i + Len(s)] = t[i]
        /\ \A i \in Len(s) + 1 .. Len(l) : l[i] = t[i - Len(s)] /\ i - Len(s) \in 1 .. Len(t)
    BY LenProperties, ConcatProperties
  <1> HIDE DEF l
  <1>2. ASSUME NEW i \in 1 .. Len(l)
        PROVE  /\ l[i].op = "guard" => i = 1
               /\ l[i].op = "take" => \E j \in i + 1 .. Len(l) : l[j].op = "free"
               /\ l[i].op = "off" /\ l[i].arg.back =>
                     i < Len(l) /\ l[i + 1].op = "on" /\ l[i + 1].arg = l[i].arg.what
               /\ l[i].op = "each" => i = Len(l)
               /\ l[i].op = "write" => i = 1
               /\ l[i].op = "vlans" => i = 1 \/ (i = 2 /\ l[1].op = "write")
    <2>1. CASE i <= Len(s)
      <3>1. i \in 1 .. Len(s) /\ l[i] = s[i]
        BY <1>1, <2>1
      <3>2. l[i].op = "take" => \E j \in i + 1 .. Len(l) : l[j].op = "free"
        <4>1. HAVE l[i].op = "take"
        <4>2. PICK k \in i + 1 .. Len(s) : s[k].op = "free"
          BY <3>1, <4>1 DEF Shape
        <4>3. k \in 1 .. Len(s) /\ k \in i + 1 .. Len(l)
          BY <1>1, <3>1
        <4> QED BY <1>1, <4>2, <4>3
      <3>3. l[i].op = "off" /\ l[i].arg.back =>
               i < Len(l) /\ l[i + 1].op = "on" /\ l[i + 1].arg = l[i].arg.what
        <4>1. HAVE l[i].op = "off" /\ l[i].arg.back
        <4>2. i < Len(s) /\ s[i + 1].op = "on" /\ s[i + 1].arg = s[i].arg.what
          BY <3>1, <4>1 DEF Shape
        <4>3. i + 1 \in 1 .. Len(s) /\ i < Len(l)
          BY <1>1, <4>2
        <4> QED BY <1>1, <3>1, <4>2, <4>3
      <3>4. /\ l[i].op = "guard" => i = 1
            /\ l[i].op # "each"
            /\ l[i].op = "write" => i = 1
        BY <3>1 DEF Shape
      <3>5. l[i].op = "vlans" => i = 1 \/ (i = 2 /\ l[1].op = "write")
        <4>1. HAVE l[i].op = "vlans"
        <4>2. i = 1 \/ (i = 2 /\ s[1].op = "write")
          BY <3>1, <4>1 DEF Shape
        <4>3. i = 2 => l[1] = s[1]
          BY <1>1, <3>1
        <4> QED BY <4>2, <4>3
      <3> QED BY <3>2, <3>3, <3>4, <3>5
    <2>2. CASE ~(i <= Len(s))
      <3> DEFINE n == i - Len(s)
      <3>1. n \in 1 .. Len(t) /\ l[i] = t[n] /\ i = n + Len(s)
        BY <1>1, <2>2
      <3> HIDE DEF n
      <3>2. l[i].op = "take" => \E j \in i + 1 .. Len(l) : l[j].op = "free"
        <4>1. HAVE l[i].op = "take"
        <4>2. PICK k \in n + 1 .. Len(t) : t[k].op = "free"
          BY <3>1, <4>1 DEF Shape
        <4>3. k \in 1 .. Len(t) /\ k + Len(s) \in i + 1 .. Len(l)
          BY <1>1, <3>1
        <4>4. l[k + Len(s)] = t[k]
          BY <1>1, <4>3
        <4> QED BY <4>2, <4>3, <4>4
      <3>3. l[i].op = "off" /\ l[i].arg.back =>
               i < Len(l) /\ l[i + 1].op = "on" /\ l[i + 1].arg = l[i].arg.what
        <4>1. HAVE l[i].op = "off" /\ l[i].arg.back
        <4>2. n < Len(t) /\ t[n + 1].op = "on" /\ t[n + 1].arg = t[n].arg.what
          BY <3>1, <4>1 DEF Shape
        <4>3. n + 1 \in 1 .. Len(t) /\ i < Len(l) /\ i + 1 = n + 1 + Len(s)
          BY <1>1, <3>1, <4>2
        <4>4. l[i + 1] = t[n + 1]
          BY <1>1, <4>3
        <4> QED BY <3>1, <4>2, <4>3, <4>4
      <3>4. l[i].op = "each" => i = Len(l)
        <4>1. l[i].op = "each" => n = Len(t)
          BY <3>1 DEF Shape
        <4>2. n = Len(t) => i = Len(l)
          BY <1>1, <3>1
        <4> QED BY <4>1, <4>2
      <3>5. l[i].op \notin {"guard", "write", "vlans"}
        BY <3>1 DEF Mild
      <3> QED BY <3>2, <3>3, <3>4, <3>5
    <2> QED BY <1>1, <2>1, <2>2
  <1>3. Shape(l)
    BY <1>2 DEF Shape
  <1> QED BY <1>3 DEF l

-----------------------------------------------------------------------------
(* The statements requests are made of. *)

USE PortAssumption, ActorAssumption, SetupAssumption

\* What a statement carries.
LEMMA ArgTypes ==
    ASSUME NEW s \in Statement
    PROVE  /\ s.op = "guard" => s.arg \in [port : Port, force : BOOLEAN]
           /\ s.op = "off" => s.arg \in [what : What, force : BOOLEAN, back : BOOLEAN]
           /\ s.op = "on" => s.arg \in What
           /\ s.op = "vlan" => s.arg \in [port : Port, vlan : VlanValue]
           /\ s.op = "vlans" => s.arg \in Edit
           /\ s.op = "write" => s.arg \in Write
           /\ s.op = "row" => s.arg \in RowChange
           /\ s.op = "each" => s.arg \in [ports : SUBSET Port, vlan : VLAN]
           /\ s.op = "upsert" => s.arg \in [Port -> RowType]
           /\ s.op \in {"clear", "insert"} => s.arg \in SUBSET Port
  BY DEF Statement, PortStatement, RefreshStatement, SessionStatement

RequestOps == {"guard", "off", "on", "vlan", "vlans", "write", "row", "each"}
RefreshOps == {"ports", "neighbours", "upsert", "clear", "insert"}

LEMMA OpTypes ==
    /\ \A s \in PortStatement : s.op \in RequestOps \cup {"take", "free"}
    /\ \A s \in RefreshStatement : s.op \in RefreshOps \cup {"take", "free"}
  BY DEF PortStatement, RefreshStatement, SessionStatement, RequestOps, RefreshOps

\* The head of a list, and the rest of it.
LEMMA AtHead ==
    ASSUME ListInv, NEW a \in Actor, NEW op, At(a, op)
    PROVE  /\ todo[a] \in Seq(StatementsOf(a)) /\ todo[a] # << >>
           /\ Head(todo[a]) \in StatementsOf(a) /\ Head(todo[a]) \in Statement
           /\ Head(todo[a]) \in Elements(todo[a])
           /\ Head(todo[a]).op = op
           /\ Rest(a) \in Seq(StatementsOf(a)) /\ Shape(Rest(a))
           /\ Elements(todo[a]) = {Head(todo[a])} \cup Elements(Rest(a))
           /\ op \in RequestOps => a \in Req
           /\ op \in RefreshOps => a = "refresh"
  <1>1. todo[a] \in Seq(StatementsOf(a)) /\ todo[a] # << >> /\ Shape(todo[a])
    BY DEF ListInv, At
  <1>2. Head(todo[a]) \in StatementsOf(a) /\ Rest(a) \in Seq(StatementsOf(a))
    BY <1>1, HeadTailProperties DEF Rest
  <1>3. Head(todo[a]).op = op
    BY DEF At
  <1>4. Head(todo[a]) \in Statement
    BY <1>2 DEF StatementsOf, Statement
  <1>5. Shape(Rest(a))
    BY <1>1, ShapeOfTail DEF Rest
  <1>6. Elements(todo[a]) = {Head(todo[a])} \cup Elements(Rest(a))
    BY <1>1, ElementsOfTail DEF Rest
  <1>7. op \in RequestOps => a \in Req
    <2>1. a = "refresh" => op \in RefreshOps \cup {"take", "free"}
      BY <1>2, <1>3, OpTypes DEF StatementsOf
    <2> QED BY <2>1 DEF RequestOps, RefreshOps, Actor
  <1>8. op \in RefreshOps => a = "refresh"
    <2>1. a # "refresh" => op \in RequestOps \cup {"take", "free"}
      BY <1>2, <1>3, OpTypes DEF StatementsOf
    <2> QED BY <2>1 DEF RequestOps, RefreshOps
  <1> QED BY <1>1, <1>2, <1>3, <1>4, <1>5, <1>6, <1>7, <1>8

\* What may go before the rest of a list.
LEMMA RestIsMild ==
    ASSUME ListInv, NEW a \in Actor, NEW op, At(a, op), op # "write"
    PROVE  Mild(Rest(a))
  <1>1. todo[a] \in Seq(StatementsOf(a)) /\ todo[a] # << >> /\ Shape(todo[a]) /\ Head(todo[a]).op # "write"
    BY DEF ListInv, At
  <1> QED BY <1>1, ShapeOfTail DEF Rest

LEMMA OneStatement ==
    ASSUME NEW S, NEW x \in S, x.op \notin {"take", "off"}
    PROVE  <<x>> \in Seq(S) /\ Shape(<<x>>) /\ Elements(<<x>>) = {x}
  <1>1. <<x>> \in Seq(S) /\ Len(<<x>>) = 1 /\ <<x>>[1] = x
    OBVIOUS
  <1>2. Shape(<<x>>)
    BY <1>1 DEF Shape
  <1> QED BY <1>1, <1>2, ElementsOfOne

-----------------------------------------------------------------------------
(* What is asked for. *)

LEMMA SessionStatements ==
    /\ TakeSession \in PortStatement /\ TakeSession.op = "take"
    /\ FreeSession \in PortStatement /\ FreeSession.op = "free"
  BY DEF TakeSession, FreeSession, Do, PortStatement, SessionStatement

LEMMA GuardStatement ==
    ASSUME NEW p \in Port, NEW force \in BOOLEAN
    PROVE  /\ DoGuard(p, force) \in PortStatement /\ DoGuard(p, force).op = "guard"
           /\ DoGuard(p, force).arg = [port |-> p, force |-> force]
  BY DEF DoGuard, Do, PortStatement

LEMMA OffStatement ==
    ASSUME NEW p \in Port, NEW how \in {"admin", "power"}, NEW force \in BOOLEAN
    PROVE  /\ DoOff(p, how, force, FALSE) \in PortStatement /\ DoOff(p, how, force, FALSE).op = "off"
           /\ DoOff(p, how, force, FALSE).arg.force = force /\ ~DoOff(p, how, force, FALSE).arg.back
  BY DEF DoOff, Do, PortStatement, What

LEMMA CutStatement ==
    ASSUME NEW p \in Port, NEW how \in {"admin", "power"}, NEW force \in BOOLEAN
    PROVE  /\ DoOff(p, how, force, TRUE) \in PortStatement /\ DoOff(p, how, force, TRUE).op = "off"
           /\ DoOff(p, how, force, TRUE).arg.force = force
           /\ DoOff(p, how, force, TRUE).arg.what = <<p, how>>
  BY DEF DoOff, Do, PortStatement, What

LEMMA OnStatement ==
    ASSUME NEW p \in Port, NEW how \in {"admin", "power"}
    PROVE  DoOn(p, how) \in PortStatement /\ DoOn(p, how).op = "on" /\ DoOn(p, how).arg = <<p, how>>
  BY DEF DoOn, Do, PortStatement, What

LEMMA RowStatements ==
    ASSUME NEW p \in Port
    PROVE  /\ DoRow(p, "admin", TRUE) \in PortStatement /\ DoRow(p, "admin", TRUE).op = "row"
           /\ DoRow(p, "admin", FALSE) \in PortStatement /\ DoRow(p, "admin", FALSE).op = "row"
           /\ \A v \in VlanValue : DoRow(p, "vlan", v) \in PortStatement /\ DoRow(p, "vlan", v).op = "row"
  BY DEF DoRow, Do, PortStatement, RowChange

LEMMA VlanStatement ==
    ASSUME NEW p \in Port, NEW v \in VlanValue
    PROVE  /\ Do("vlan", [port |-> p, vlan |-> v]) \in PortStatement
           /\ Do("vlan", [port |-> p, vlan |-> v]).op = "vlan"
  BY DEF Do, PortStatement

LEMMA VlansStatement ==
    ASSUME NEW edit \in Edit
    PROVE  /\ Do("vlans", edit) \in PortStatement
           /\ Do("vlans", edit).op = "vlans" /\ Do("vlans", edit).arg = edit
  BY DEF Do, PortStatement

LEMMA WriteStatement ==
    ASSUME NEW write \in Write
    PROVE  /\ Do("write", write) \in PortStatement
           /\ Do("write", write).op = "write" /\ Do("write", write).arg = write
  BY DEF Do, PortStatement

LEMMA EachStatement ==
    ASSUME NEW ports \in SUBSET Port, NEW v \in VLAN
    PROVE  /\ Do("each", [ports |-> ports, vlan |-> v]) \in PortStatement
           /\ Do("each", [ports |-> ports, vlan |-> v]).op = "each"
  BY DEF Do, PortStatement

\* A list that takes nothing down and writes no bitmaps.
Harmless(list) == \A s \in Elements(list) : s.op \in {"take", "free", "on", "vlan", "row", "each"}

LEMMA PortOnList ==
    ASSUME NEW p \in Port
    PROVE  PortOn(p) \in Seq(PortStatement) /\ Shape(PortOn(p)) /\ Harmless(PortOn(p))
  <1> DEFINE on == DoOn(p, "admin")
             row == DoRow(p, "admin", TRUE)
             l == PortOn(p)
  <1>1. /\ on \in PortStatement /\ on.op = "on" /\ row \in PortStatement /\ row.op = "row"
        /\ TakeSession \in PortStatement /\ TakeSession.op = "take"
        /\ FreeSession \in PortStatement /\ FreeSession.op = "free"
    BY SessionStatements, OnStatement, RowStatements
  <1>2. CASE vendor = "ssh"
    <2>1. l = <<TakeSession, on, FreeSession, row>>
      BY <1>2 DEF PortOn
    <2> HIDE DEF l, on, row
    <2>2. /\ l \in Seq(PortStatement) /\ Len(l) = 4 /\ Elements(l) = {TakeSession, on, FreeSession, row}
          /\ l[1] = TakeSession /\ l[2] = on /\ l[3] = FreeSession /\ l[4] = row
      BY <1>1, <2>1, Four
    <2>3. Shape(l)
      BY <1>1, <2>2 DEF Shape
    <2>4. Harmless(l)
      BY <1>1, <2>2 DEF Harmless
    <2> QED BY <2>2, <2>3, <2>4 DEF l
  <1>3. CASE vendor # "ssh"
    <2>1. l = <<on, row>>
      BY <1>3 DEF PortOn
    <2> HIDE DEF l, on, row
    <2>2. /\ l \in Seq(PortStatement) /\ Len(l) = 2 /\ Elements(l) = {on, row}
          /\ l[1] = on /\ l[2] = row
      BY <1>1, <2>1, Two
    <2>3. Shape(l)
      BY <1>1, <2>2 DEF Shape
    <2>4. Harmless(l)
      BY <1>1, <2>2 DEF Harmless
    <2> QED BY <2>2, <2>3, <2>4 DEF l
  <1> QED BY <1>2, <1>3

\* A list that takes something down starts with the guard, and asks it the same.
Guarded(list, p, force) ==
    /\ list # << >> /\ Head(list).op = "guard" /\ Head(list).arg = [port |-> p, force |-> force]
    /\ \A s \in Elements(list) :
          /\ s.op \in {"guard", "take", "free", "off", "on", "row"}
          /\ s.op = "off" => s.arg.force = force

LEMMA PortOffList ==
    ASSUME NEW p \in Port, NEW force \in BOOLEAN
    PROVE  /\ PortOff(p, force) \in Seq(PortStatement) /\ Shape(PortOff(p, force))
           /\ Guarded(PortOff(p, force), p, force)
  <1> DEFINE guard == DoGuard(p, force)
             down == DoOff(p, "admin", force, FALSE)
             row == DoRow(p, "admin", FALSE)
             l == PortOff(p, force)
  <1>1. /\ guard \in PortStatement /\ guard.op = "guard" /\ guard.arg = [port |-> p, force |-> force]
        /\ down \in PortStatement /\ down.op = "off" /\ down.arg.force = force /\ ~down.arg.back
        /\ row \in PortStatement /\ row.op = "row"
        /\ TakeSession \in PortStatement /\ TakeSession.op = "take"
        /\ FreeSession \in PortStatement /\ FreeSession.op = "free"
    <2>1. guard \in PortStatement /\ guard.op = "guard" /\ guard.arg = [port |-> p, force |-> force]
      BY GuardStatement
    <2>2. down \in PortStatement /\ down.op = "off" /\ down.arg.force = force /\ ~down.arg.back
      BY OffStatement
    <2>3. row \in PortStatement /\ row.op = "row"
      BY RowStatements
    <2> QED BY <2>1, <2>2, <2>3, SessionStatements
  <1>2. CASE vendor = "ssh"
    <2>1. l = <<guard, TakeSession, down, FreeSession, row>>
      BY <1>2 DEF PortOff
    <2> HIDE DEF l, guard, down, row
    <2>2. /\ l \in Seq(PortStatement) /\ Len(l) = 5 /\ l # << >> /\ Head(l) = guard
          /\ Elements(l) = {guard, TakeSession, down, FreeSession, row}
          /\ l[1] = guard /\ l[2] = TakeSession /\ l[3] = down /\ l[4] = FreeSession /\ l[5] = row
      BY <1>1, <2>1, Five
    <2>3. Shape(l)
      BY <1>1, <2>2 DEF Shape
    <2>4. Guarded(l, p, force)
      BY <1>1, <2>2 DEF Guarded
    <2> QED BY <2>2, <2>3, <2>4 DEF l
  <1>3. CASE vendor # "ssh"
    <2>1. l = <<guard, down, row>>
      BY <1>3 DEF PortOff
    <2> HIDE DEF l, guard, down, row
    <2>2. /\ l \in Seq(PortStatement) /\ Len(l) = 3 /\ l # << >> /\ Head(l) = guard
          /\ Elements(l) = {guard, down, row} /\ l[1] = guard /\ l[2] = down /\ l[3] = row
      BY <1>1, <2>1, Three
    <2>3. Shape(l)
      BY <1>1, <2>2 DEF Shape
    <2>4. Guarded(l, p, force)
      BY <1>1, <2>2 DEF Guarded
    <2> QED BY <2>2, <2>3, <2>4 DEF l
  <1> QED BY <1>2, <1>3

LEMMA CycleList ==
    ASSUME NEW p \in Port, NEW how \in {"admin", "power"}, NEW force \in BOOLEAN
    PROVE  /\ Cycle(p, how, force) \in Seq(PortStatement) /\ Shape(Cycle(p, how, force))
           /\ Guarded(Cycle(p, how, force), p, force)
  <1> DEFINE guard == DoGuard(p, force)
             down == DoOff(p, how, force, TRUE)
             on == DoOn(p, how)
             l == Cycle(p, how, force)
  <1>1. /\ guard \in PortStatement /\ guard.op = "guard" /\ guard.arg = [port |-> p, force |-> force]
        /\ down \in PortStatement /\ down.op = "off" /\ down.arg.force = force
        /\ on \in PortStatement /\ on.op = "on" /\ on.arg = down.arg.what
        /\ TakeSession \in PortStatement /\ TakeSession.op = "take"
        /\ FreeSession \in PortStatement /\ FreeSession.op = "free"
    <2>1. guard \in PortStatement /\ guard.op = "guard" /\ guard.arg = [port |-> p, force |-> force]
      BY GuardStatement
    <2>2. /\ down \in PortStatement /\ down.op = "off" /\ down.arg.force = force
          /\ down.arg.what = <<p, how>>
      BY CutStatement
    <2>3. on \in PortStatement /\ on.op = "on" /\ on.arg = <<p, how>>
      BY OnStatement
    <2> QED BY <2>1, <2>2, <2>3, SessionStatements
  <1>2. CASE vendor = "ssh"
    <2>1. l = <<guard, TakeSession, down, on, FreeSession>>
      BY <1>2 DEF Cycle
    <2> HIDE DEF l, guard, down, on
    <2>2. /\ l \in Seq(PortStatement) /\ Len(l) = 5 /\ l # << >> /\ Head(l) = guard
          /\ Elements(l) = {guard, TakeSession, down, on, FreeSession}
          /\ l[1] = guard /\ l[2] = TakeSession /\ l[3] = down /\ l[4] = on /\ l[5] = FreeSession
      BY <1>1, <2>1, Five
    <2>3. Shape(l)
      BY <1>1, <2>2 DEF Shape
    <2>4. Guarded(l, p, force)
      BY <1>1, <2>2 DEF Guarded
    <2> QED BY <2>2, <2>3, <2>4 DEF l
  <1>3. CASE vendor # "ssh"
    <2>1. l = <<guard, down, on>>
      BY <1>3 DEF Cycle
    <2> HIDE DEF l, guard, down, on
    <2>2. /\ l \in Seq(PortStatement) /\ Len(l) = 3 /\ l # << >> /\ Head(l) = guard
          /\ Elements(l) = {guard, down, on} /\ l[1] = guard /\ l[2] = down /\ l[3] = on
      BY <1>1, <2>1, Three
    <2>3. Shape(l)
      BY <1>1, <2>2 DEF Shape
    <2>4. Guarded(l, p, force)
      BY <1>1, <2>2 DEF Guarded
    <2> QED BY <2>2, <2>3, <2>4 DEF l
  <1> QED BY <1>2, <1>3

LEMMA ConfigList ==
    ASSUME NEW p \in Port, NEW v \in VlanValue
    PROVE  /\ Config(p, v) \in Seq(PortStatement) /\ Shape(Config(p, v)) /\ Harmless(Config(p, v))
           /\ \A s \in Elements(Config(p, v)) : s.op # "each"
  <1> DEFINE set == Do("vlan", [port |-> p, vlan |-> v])
             row == DoRow(p, "vlan", v)
             l == Config(p, v)
  <1>1. /\ set \in PortStatement /\ set.op = "vlan" /\ row \in PortStatement /\ row.op = "row"
        /\ TakeSession \in PortStatement /\ TakeSession.op = "take"
        /\ FreeSession \in PortStatement /\ FreeSession.op = "free"
    <2>1. set \in PortStatement /\ set.op = "vlan"
      BY VlanStatement
    <2>2. row \in PortStatement /\ row.op = "row"
      BY RowStatements
    <2> QED BY <2>1, <2>2, SessionStatements
  <1>2. l = <<TakeSession, set, FreeSession, row>>
    BY DEF Config
  <1> HIDE DEF l, set, row
  <1>3. /\ l \in Seq(PortStatement) /\ Len(l) = 4 /\ Elements(l) = {TakeSession, set, FreeSession, row}
        /\ l[1] = TakeSession /\ l[2] = set /\ l[3] = FreeSession /\ l[4] = row
    BY <1>1, <1>2, Four
  <1>4. Shape(l)
    BY <1>1, <1>3 DEF Shape
  <1>5. Harmless(l) /\ \A s \in Elements(l) : s.op # "each"
    BY <1>1, <1>3 DEF Harmless
  <1> QED BY <1>3, <1>4, <1>5 DEF l

LEMMA AccessList ==
    ASSUME NEW p \in Port, NEW v \in VLAN
    PROVE  /\ Access(p, v) \in Seq(PortStatement) /\ Shape(Access(p, v)) /\ Harmless(Access(p, v))
           /\ \A s \in Elements(Access(p, v)) : s.op # "each"
  <1> DEFINE set == Do("vlan", [port |-> p, vlan |-> v])
             row == DoRow(p, "vlan", v)
             l == Access(p, v)
  <1>1. v \in VlanValue
    BY DEF VlanValue
  <1>2. set \in PortStatement /\ set.op = "vlan"
    BY <1>1, VlanStatement
  <1>3. row \in PortStatement /\ row.op = "row"
    BY <1>1, RowStatements
  <1>4. CASE vendor = "ssh"
    BY <1>1, <1>4, ConfigList DEF Access
  <1>5. CASE vendor # "ssh" /\ p \in Mapped
    <2>1. l = <<set, row>>
      BY <1>5 DEF Access
    <2> HIDE DEF l, set, row
    <2>2. /\ l \in Seq(PortStatement) /\ Len(l) = 2 /\ Elements(l) = {set, row}
          /\ l[1] = set /\ l[2] = row
      BY <1>2, <1>3, <2>1, Two
    <2>3. Shape(l)
      BY <1>2, <1>3, <2>2 DEF Shape
    <2>4. Harmless(l) /\ \A s \in Elements(l) : s.op # "each"
      BY <1>2, <1>3, <2>2 DEF Harmless
    <2> QED BY <2>2, <2>3, <2>4 DEF l
  <1>6. CASE vendor # "ssh" /\ p \notin Mapped
    <2>1. l = <<row>>
      BY <1>6 DEF Access
    <2> HIDE DEF l, row
    <2>2. l \in Seq(PortStatement) /\ Shape(l) /\ Elements(l) = {row}
      BY <1>3, <2>1, OneStatement
    <2>3. Harmless(l) /\ \A s \in Elements(l) : s.op # "each"
      BY <1>3, <2>2 DEF Harmless
    <2> QED BY <2>2, <2>3 DEF l
  <1> QED BY <1>4, <1>5, <1>6

LEMMA BulkList ==
    ASSUME NEW ports \in SUBSET Port, NEW v \in VLAN
    PROVE  /\ Bulk(ports, v) \in Seq(PortStatement) /\ Shape(Bulk(ports, v)) /\ Harmless(Bulk(ports, v))
           /\ Mild(Bulk(ports, v))
  <1> DEFINE each == Do("each", [ports |-> ports, vlan |-> v])
             l == Bulk(ports, v)
  <1>1. CASE ports = {}
    <2>1. l = << >> /\ << >> \in Seq(PortStatement) /\ Len(<< >>) = 0
      BY <1>1, EmptySeq DEF Bulk
    <2>2. Shape(l) /\ Mild(l) /\ Harmless(l)
      BY <2>1, ElementsOfEmpty DEF Shape, Mild, Harmless
    <2> QED BY <2>1, <2>2
  <1>2. CASE ports # {}
    <2>1. each \in PortStatement /\ each.op = "each"
      BY EachStatement
    <2>2. l = <<each>>
      BY <1>2 DEF Bulk
    <2> HIDE DEF l, each
    <2>3. l \in Seq(PortStatement) /\ Shape(l) /\ Elements(l) = {each}
      BY <2>1, <2>2, OneStatement
    <2>4. Len(l) = 1 /\ l[1] = each
      BY <2>2
    <2>5. Harmless(l) /\ Mild(l)
      BY <2>1, <2>3, <2>4 DEF Harmless, Mild
    <2> QED BY <2>3, <2>5 DEF l
  <1> QED BY <1>1, <1>2

\* A bulk edit's next port, and what it leaves.
LEMMA NextList ==
    ASSUME NEW p \in Port, NEW ports \in SUBSET Port, NEW v \in VLAN
    PROVE  /\ Access(p, v) \o Bulk(ports, v) \in Seq(PortStatement)
           /\ Shape(Access(p, v) \o Bulk(ports, v)) /\ Harmless(Access(p, v) \o Bulk(ports, v))
  <1> DEFINE s == Access(p, v)
             t == Bulk(ports, v)
  <1>1. s \in Seq(PortStatement) /\ Shape(s) /\ Harmless(s) /\ \A x \in Elements(s) : x.op # "each"
    BY AccessList
  <1>2. t \in Seq(PortStatement) /\ Shape(t) /\ Harmless(t) /\ Mild(t)
    BY BulkList
  <1> HIDE DEF s, t
  <1>3. \A i \in 1 .. Len(s) : s[i].op # "each"
    BY <1>1 DEF Elements
  <1>4. Shape(s \o t)
    BY <1>1, <1>2, <1>3, ShapeOfConcat
  <1>5. s \o t \in Seq(PortStatement) /\ Elements(s \o t) = Elements(s) \cup Elements(t)
    BY <1>1, <1>2, ConcatProperties, ElementsOfConcat
  <1>6. Harmless(s \o t)
    BY <1>1, <1>2, <1>5 DEF Harmless
  <1> QED BY <1>4, <1>5, <1>6 DEF s, t

\* A trunk edit over SNMP: one statement about the bitmaps, all VLANs ahead of it.
TrunkEdit(p, allowed) == [port |-> p, allowed |-> allowed, left |-> VLAN]
Trunks(list, p, allowed) ==
    \A s \in Elements(list) : s.op = "row" \/ (s.op = "vlans" /\ s.arg = TrunkEdit(p, allowed))

LEMMA TrunkList ==
    ASSUME NEW p \in Port, NEW allowed \in SUBSET VLAN
    PROVE  /\ Trunk(p, allowed) \in Seq(PortStatement) /\ Shape(Trunk(p, allowed))
           /\ \/ Harmless(Trunk(p, allowed))
              \/ /\ Trunks(Trunk(p, allowed), p, allowed)
                 /\ \E s \in Elements(Trunk(p, allowed)) : s.op = "vlans"
  <1> DEFINE edit == TrunkEdit(p, allowed)
             vlans == Do("vlans", edit)
             row == DoRow(p, "vlan", Trunked)
             l == Trunk(p, allowed)
  <1>1. Trunked \in VlanValue /\ edit \in Edit
    BY DEF VlanValue, Edit, TrunkEdit
  <1>2. vlans \in PortStatement /\ vlans.op = "vlans" /\ vlans.arg = edit
    BY <1>1, VlansStatement
  <1>3. row \in PortStatement /\ row.op = "row"
    BY <1>1, RowStatements
  <1>4. CASE vendor = "ssh"
    BY <1>1, <1>4, ConfigList DEF Trunk
  <1>5. CASE vendor # "ssh" /\ p \in Mapped
    <2>1. l = <<vlans, row>>
      BY <1>5 DEF Trunk, TrunkEdit
    <2> HIDE DEF l, vlans, row
    <2>2. /\ l \in Seq(PortStatement) /\ Len(l) = 2 /\ Elements(l) = {vlans, row}
          /\ l[1] = vlans /\ l[2] = row
      BY <1>2, <1>3, <2>1, Two
    <2>3. Shape(l)
      BY <1>2, <1>3, <2>2 DEF Shape
    <2>4. Trunks(l, p, allowed) /\ \E s \in Elements(l) : s.op = "vlans"
      BY <1>2, <1>3, <2>2 DEF Trunks
    <2> QED BY <2>2, <2>3, <2>4 DEF l
  <1>6. CASE vendor # "ssh" /\ p \notin Mapped
    <2>1. l = <<row>>
      BY <1>6 DEF Trunk
    <2> HIDE DEF l, row
    <2>2. l \in Seq(PortStatement) /\ Shape(l) /\ Elements(l) = {row}
      BY <1>3, <2>1, OneStatement
    <2>3. Harmless(l)
      BY <1>3, <2>2 DEF Harmless
    <2> QED BY <2>2, <2>3 DEF l
  <1> QED BY <1>4, <1>5, <1>6

-----------------------------------------------------------------------------
(* What a step makes of an actor's list. *)

\* The next VLAN of a trunk edit.
Least(left) == CHOOSE x \in left : \A y \in left : x <= y
WriteOf(edit) ==
    [port |-> edit.port, vlan |-> Least(edit.left), member |-> Member(edit.allowed, Least(edit.left)),
     egress |-> egress[Least(edit.left)], untagged |-> untagged[Least(edit.left)]]
LeftOf(edit) == edit.left \ {Least(edit.left)}
EditAfter(edit) == [edit EXCEPT !.left = LeftOf(edit)]

Reads(a) ==
    <<Do("write", WriteOf(Arg(a)))>>
    \o (IF LeftOf(Arg(a)) = {} THEN << >> ELSE <<Do("vlans", EditAfter(Arg(a)))>>)

\* Nothing new is taken down, and no bitmaps are written but by the loop over them.
Kept(a, list) ==
    /\ list \in Seq(StatementsOf(a)) /\ Shape(list)
    /\ \A s \in Elements(list) :
          /\ s.op \in {"guard", "off"} => s \in Elements(Rest(a))
          /\ s.op \in {"vlans", "write"} => s \in Elements(Rest(a)) \/ (At(a, "vlans") /\ s \in Elements(Reads(a)))

\* Nothing is dropped but by the guard or a failure.
Full(a, list) == Elements(Rest(a)) \subseteq Elements(list) \/ At(a, "guard")

LEMMA RestIsKept ==
    ASSUME ListInv, NEW a \in Actor, NEW op, At(a, op)
    PROVE  Kept(a, Rest(a)) /\ Full(a, Rest(a))
  BY AtHead DEF Kept, Full

LEMMA EmptyIsKept ==
    ASSUME NEW a \in Actor
    PROVE  Kept(a, << >>)
  <1>1. << >> \in Seq(StatementsOf(a)) /\ Len(<< >>) = 0
    BY EmptySeq
  <1>2. Shape(<< >>)
    BY <1>1 DEF Shape
  <1> QED BY <1>1, <1>2, ElementsOfEmpty DEF Kept

\* Statements put before the rest of a list.
LEMMA BeforeIsKept ==
    ASSUME ListInv, NEW a \in Actor, NEW op, At(a, op), op # "write",
           NEW list \in Seq(StatementsOf(a)), Shape(list),
           \A s \in Elements(list) : s.op \in {"upsert", "clear", "insert"}
    PROVE  Kept(a, list \o Rest(a)) /\ Full(a, list \o Rest(a))
  <1>1. Rest(a) \in Seq(StatementsOf(a)) /\ Shape(Rest(a)) /\ Mild(Rest(a))
    BY AtHead, RestIsMild
  <1>2. \A i \in 1 .. Len(list) : list[i].op # "each"
    BY DEF Elements
  <1>3. list \o Rest(a) \in Seq(StatementsOf(a))
    BY <1>1, ConcatProperties
  <1>4. Shape(list \o Rest(a))
    BY <1>1, <1>2, ShapeOfConcat
  <1>5. Elements(list \o Rest(a)) = Elements(list) \cup Elements(Rest(a))
    BY <1>1, ElementsOfConcat
  <1>6. Kept(a, list \o Rest(a))
    BY <1>3, <1>4, <1>5 DEF Kept
  <1>7. Full(a, list \o Rest(a))
    BY <1>5 DEF Full
  <1> QED BY <1>6, <1>7

LEMMA InsertsList ==
    ASSUME NEW ports \in SUBSET Port
    PROVE  /\ Inserts(ports) \in Seq(RefreshStatement) /\ Shape(Inserts(ports))
           /\ \A s \in Elements(Inserts(ports)) : s.op \in {"upsert", "clear", "insert"}
  <1> DEFINE insert == Do("insert", ports)
  <1>1. CASE ports = {}
    <2>1. Inserts(ports) = << >> /\ << >> \in Seq(RefreshStatement) /\ Len(<< >>) = 0
      BY <1>1, EmptySeq DEF Inserts
    <2>2. Shape(<< >>)
      BY <2>1 DEF Shape
    <2> QED BY <2>1, <2>2, ElementsOfEmpty
  <1>2. CASE ports # {}
    <2>1. insert \in RefreshStatement /\ insert.op = "insert"
      BY DEF Do, RefreshStatement
    <2>2. Inserts(ports) = <<insert>>
      BY <1>2 DEF Inserts
    <2> HIDE DEF insert
    <2> QED BY <2>1, <2>2, OneStatement
  <1> QED BY <1>1, <1>2

LEMMA CaughtIsKept ==
    ASSUME ListInv, NEW a \in Actor, todo[a] # << >>
    PROVE  /\ Kept(a, Caught(todo[a]))
           /\ \A s \in Elements(Caught(todo[a])) : s.op = "each"
  <1> DEFINE l == todo[a]
             last == l[Len(l)]
  <1>1. CASE last.op = "each"
    <2>1. Caught(l) = <<last>>
      BY <1>1 DEF Caught
    <2>2. l \in Seq(StatementsOf(a)) /\ Len(l) \in Nat \ {0}
      <3>1. l \in Seq(StatementsOf(a)) /\ l # << >>
        BY DEF ListInv
      <3> QED BY <3>1, EmptySeq
    <2>3. last \in StatementsOf(a)
      <3> HIDE DEF l
      <3>1. Len(l) \in 1 .. Len(l)
        BY <2>2
      <3> QED BY <2>2, <3>1, ElementOfSeq
    <2> HIDE DEF last
    <2>4. <<last>> \in Seq(StatementsOf(a)) /\ Shape(<<last>>) /\ Elements(<<last>>) = {last}
      BY <1>1, <2>3, OneStatement
    <2> QED BY <1>1, <2>1, <2>4 DEF Kept
  <1>2. CASE last.op # "each"
    <2>1. Caught(l) = << >>
      BY <1>2 DEF Caught
    <2> QED BY <2>1, EmptyIsKept, ElementsOfEmpty
  <1> QED BY <1>1, <1>2

\* The type invariant but for who holds the session.
DataTypes ==
    /\ <<vendor, kinds>> \in Setups
    /\ off \subseteq Port \X {"admin", "power"}
    /\ egress \in [VLAN -> SUBSET Port] /\ untagged \in [VLAN -> SUBSET Port]
    /\ vlan \in [Port -> VLAN \cup {Trunked}]
    /\ rows \in [Port -> [admin : BOOLEAN, vlan : VLAN \cup {Trunked}]]
    /\ links \subseteq Port /\ manual \subseteq Port
    /\ session \in Actor \cup {None}

LEMMA LeastIsLeft ==
    ASSUME NEW edit \in Edit
    PROVE  Least(edit.left) \in edit.left /\ edit.left \subseteq VLAN
  <1>1. edit.left \subseteq VLAN /\ edit.left # {}
    BY DEF Edit
  <1>2. edit.left \subseteq Nat
    BY <1>1
  <1>3. \E x \in edit.left : \A y \in edit.left : x <= y
    BY <1>1, <1>2, Smallest
  <1> QED BY <1>1, <1>3 DEF Least

LEMMA EditTypes ==
    ASSUME DataTypes, NEW edit \in Edit
    PROVE  /\ WriteOf(edit) \in Write
           /\ LeftOf(edit) # {} => EditAfter(edit) \in Edit
  <1>1. Least(edit.left) \in VLAN /\ edit.left \subseteq VLAN
    BY LeastIsLeft
  <1>2. edit.port \in Port /\ edit.allowed \in SUBSET VLAN
    BY DEF Edit
  <1>3. Member(edit.allowed, Least(edit.left)) \in BOOLEAN
    BY DEF Member
  <1>4. egress[Least(edit.left)] \in SUBSET Port /\ untagged[Least(edit.left)] \in SUBSET Port
    BY <1>1 DEF DataTypes
  <1>5. WriteOf(edit) \in Write
    BY <1>1, <1>2, <1>3, <1>4 DEF WriteOf, Write
  <1>6. EditAfter(edit) = [port |-> edit.port, allowed |-> edit.allowed, left |-> LeftOf(edit)]
    BY DEF EditAfter, Edit
  <1>7. LeftOf(edit) \in SUBSET VLAN
    BY <1>1 DEF LeftOf
  <1>8. LeftOf(edit) # {} => EditAfter(edit) \in Edit
    BY <1>2, <1>6, <1>7 DEF Edit
  <1> QED BY <1>5, <1>8

LEMMA ReadsList ==
    ASSUME ListInv, DataTypes, NEW a \in Actor, At(a, "vlans")
    PROVE  /\ a \in Req /\ Arg(a) \in Edit
           /\ Reads(a) \in Seq(PortStatement)
           /\ Elements(Reads(a)) =
                 {Do("write", WriteOf(Arg(a)))} \cup
                 (IF LeftOf(Arg(a)) = {} THEN {} ELSE {Do("vlans", EditAfter(Arg(a)))})
           /\ Kept(a, Reads(a) \o Rest(a)) /\ Full(a, Reads(a) \o Rest(a))
           /\ Elements(Reads(a) \o Rest(a)) = Elements(Reads(a)) \cup Elements(Rest(a))
  <1> DEFINE write == Do("write", WriteOf(Arg(a)))
             vlans == Do("vlans", EditAfter(Arg(a)))
             left == LeftOf(Arg(a))
             l == Reads(a)
  <1>1. a \in Req /\ Arg(a) \in Edit
    <2>1. Head(todo[a]) \in Statement /\ Head(todo[a]).op = "vlans"
      BY AtHead
    <2>2. a \in Req
      BY AtHead DEF RequestOps
    <2> QED BY <2>1, <2>2, ArgTypes DEF Arg
  <1>2. /\ write \in PortStatement /\ write.op = "write"
    BY <1>1, EditTypes, WriteStatement
  <1>3. left # {} => vlans \in PortStatement /\ vlans.op = "vlans"
    BY <1>1, EditTypes, VlansStatement
  <1>4. /\ l \in Seq(PortStatement) /\ Shape(l) /\ \A i \in 1 .. Len(l) : l[i].op # "each"
        /\ Elements(l) = {write} \cup (IF left = {} THEN {} ELSE {vlans})
    <2>1. CASE left = {}
      <3>1. l = <<write>> \o << >>
        BY <2>1 DEF Reads
      <3> HIDE DEF l, write, vlans, left
      <3>2. <<write>> \in Seq(PortStatement) /\ Shape(<<write>>) /\ Elements(<<write>>) = {write}
        BY <1>2, OneStatement
      <3>3. l = <<write>>
        BY <3>1, <3>2, ConcatEmptySeq
      <3>4. \A i \in 1 .. Len(l) : l[i].op # "each"
        BY <1>2, <3>3
      <3> QED BY <2>1, <3>2, <3>3, <3>4
    <2>2. CASE left # {}
      <3>1. l = <<write>> \o <<vlans>>
        BY <2>2 DEF Reads
      <3> HIDE DEF l, write, vlans, left
      <3>2. /\ <<write>> \in Seq(PortStatement) /\ Elements(<<write>>) = {write}
            /\ <<vlans>> \in Seq(PortStatement) /\ Elements(<<vlans>>) = {vlans}
            /\ Len(<<write>>) = 1 /\ Len(<<vlans>>) = 1 /\ <<write>>[1] = write /\ <<vlans>>[1] = vlans
        BY <1>2, <1>3, <2>2, OneStatement
      <3>3. /\ l \in Seq(PortStatement) /\ Len(l) = 1 + 1
            /\ \A i \in 1 .. 1 + 1 : l[i] = IF i <= 1 THEN <<write>>[i] ELSE <<vlans>>[i - 1]
        BY <3>1, <3>2, ConcatProperties
      <3>4. Len(l) = 2 /\ l[1] = write /\ l[2] = vlans
        BY <3>2, <3>3
      <3>5. Elements(l) = {write} \cup {vlans}
        <4>1. 1 .. 2 = {1, 2}
          OBVIOUS
        <4> QED BY <3>4, <4>1 DEF Elements
      <3>6. Shape(l) /\ \A i \in 1 .. Len(l) : l[i].op # "each"
        BY <1>2, <1>3, <2>2, <3>4 DEF Shape
      <3> QED BY <2>2, <3>3, <3>5, <3>6
    <2> QED BY <2>1, <2>2
  <1> HIDE DEF l, left, write, vlans
  <1>5. Rest(a) \in Seq(PortStatement) /\ Shape(Rest(a)) /\ Mild(Rest(a))
    BY <1>1, AtHead, RestIsMild DEF StatementsOf
  <1>6. l \o Rest(a) \in Seq(PortStatement)
    BY <1>4, <1>5, ConcatProperties
  <1>7. Shape(l \o Rest(a))
    BY <1>4, <1>5, ShapeOfConcat
  <1>8. Elements(l \o Rest(a)) = Elements(l) \cup Elements(Rest(a))
    BY <1>4, <1>5, ElementsOfConcat
  <1>9. StatementsOf(a) = PortStatement
    BY <1>1 DEF StatementsOf
  <1>10. \A s \in Elements(l) : s.op \in {"write", "vlans"}
    BY <1>2, <1>3, <1>4
  <1>11. Kept(a, l \o Rest(a))
    BY <1>6, <1>7, <1>8, <1>9, <1>10 DEF Kept, l
  <1>12. Full(a, l \o Rest(a))
    BY <1>8 DEF Full
  <1> QED BY <1>1, <1>4, <1>8, <1>11, <1>12 DEF l, left, write, vlans

LEMMA OneBeforeIsKept ==
    ASSUME ListInv, NEW a \in Actor, NEW op, At(a, op), op \in RefreshOps,
           NEW x \in RefreshStatement, x.op \in {"upsert", "clear"}
    PROVE  Kept(a, <<x>> \o Rest(a)) /\ Full(a, <<x>> \o Rest(a))
  <1>1. StatementsOf(a) = RefreshStatement
    BY AtHead DEF StatementsOf
  <1>2. <<x>> \in Seq(StatementsOf(a)) /\ Shape(<<x>>) /\ Elements(<<x>>) = {x}
    BY <1>1, OneStatement
  <1>3. \A s \in Elements(<<x>>) : s.op \in {"upsert", "clear", "insert"}
    BY <1>2
  <1>4. op # "write"
    BY DEF RefreshOps
  <1> QED BY <1>2, <1>3, <1>4, BeforeIsKept

\* Every step of an actor puts such a list in the place of its own.
ActorStep(a) == Step(a) \/ Fails(a) \/ NeighboursFail(a)

LEMMA StepList ==
    ASSUME ListInv, DataTypes, NEW a \in Actor, ActorStep(a)
    PROVE  \E list : Continue(a, list) /\ Kept(a, list) /\ (Full(a, list) \/ Fails(a))
  <1> DEFINE Goal == \E list : Continue(a, list) /\ Kept(a, list) /\ (Full(a, list) \/ Fails(a))
  <1>1. ASSUME NEW op, At(a, op), Continue(a, Rest(a))
        PROVE  Goal
    BY <1>1, RestIsKept
  <1>2. ASSUME NEW op, At(a, op), op # "write",
               NEW list \in Seq(StatementsOf(a)), Shape(list),
               \A s \in Elements(list) : s.op \in {"upsert", "clear", "insert"},
               Continue(a, list \o Rest(a))
        PROVE  Goal
    BY <1>2, BeforeIsKept
  <1> SUFFICES Goal
    OBVIOUS
  <1> HIDE DEF Goal
  <1>3. CASE Guard(a)
    <2>1. At(a, "guard") /\ (Continue(a, Rest(a)) \/ Continue(a, << >>))
      BY <1>3 DEF Guard
    <2>2. CASE Continue(a, Rest(a))
      BY <1>1, <2>1, <2>2
    <2>3. CASE Continue(a, << >>)
      <3>1. Full(a, << >>)
        BY <2>1 DEF Full
      <3> QED BY <2>3, <3>1, EmptyIsKept DEF Goal
    <2> QED BY <2>1, <2>2, <2>3
  <1>4. CASE Take(a) \/ Free(a) \/ SwitchOff(a) \/ SwitchOn(a) \/ SetVlan(a)
        \/ SetVlanBitmapPort(a) \/ UpdateRow(a) \/ UpsertPorts(a)
    <2>1. Continue(a, Rest(a)) /\ \E op : At(a, op)
      BY <1>4 DEF Take, Free, SwitchOff, SwitchOn, SetVlan, SetVlanBitmapPort, UpdateRow, UpsertPorts
    <2> QED BY <1>1, <2>1
  <1>7. CASE ReadVlanBitmaps(a)
    <2>1. At(a, "vlans") /\ Continue(a, Reads(a) \o Rest(a))
      BY <1>7 DEF ReadVlanBitmaps, Reads, WriteOf, LeftOf, EditAfter, Least
    <2> QED BY <2>1, ReadsList DEF Goal
  <1>8. CASE NextPort(a)
    <2>1. At(a, "each")
      BY <1>8 DEF NextPort
    <2>2. a \in Req /\ Rest(a) = << >>
      <3>1. a \in Req
        BY <2>1, AtHead DEF RequestOps
      <3>2. todo[a] \in Seq(StatementsOf(a)) /\ todo[a] # << >> /\ Shape(todo[a]) /\ Head(todo[a]).op = "each"
        BY <2>1 DEF ListInv, At
      <3> QED BY <3>1, <3>2, ShapeOfTail DEF Rest
    <2>3. Arg(a).ports \in SUBSET Port /\ Arg(a).vlan \in VLAN
      <3>1. Head(todo[a]) \in Statement /\ Head(todo[a]).op = "each"
        BY <2>1, AtHead
      <3> QED BY <3>1, ArgTypes DEF Arg
    <2>4. PICK p \in Arg(a).ports :
          Continue(a, Access(p, Arg(a).vlan) \o Bulk(Arg(a).ports \ {p}, Arg(a).vlan))
      BY <1>8 DEF NextPort
    <2> DEFINE list == Access(p, Arg(a).vlan) \o Bulk(Arg(a).ports \ {p}, Arg(a).vlan)
    <2>5. list \in Seq(PortStatement) /\ Shape(list) /\ Harmless(list)
      <3>1. p \in Port /\ Arg(a).ports \ {p} \in SUBSET Port
        BY <2>3
      <3> QED BY <2>3, <3>1, NextList
    <2>6. StatementsOf(a) = PortStatement
      BY <2>2 DEF StatementsOf
    <2> HIDE DEF list
    <2>7. Kept(a, list)
      BY <2>5, <2>6 DEF Kept, Harmless
    <2>8. Full(a, list)
      BY <2>2, ElementsOfEmpty DEF Full
    <2> QED BY <2>4, <2>7, <2>8 DEF list, Goal
  <1>9. CASE ReadPorts(a)
    <2> DEFINE upsert == Do("upsert", [p \in Port |-> Row(p)])
    <2>1. At(a, "ports") /\ Continue(a, <<upsert>> \o Rest(a))
      BY <1>9 DEF ReadPorts
    <2>2. \A p \in Port : Row(p) \in RowType
      BY DEF DataTypes, Row, RowType, VlanValue
    <2>3. upsert \in RefreshStatement /\ upsert.op = "upsert"
      BY <2>2 DEF RefreshStatement, Do
    <2> HIDE DEF upsert
    <2>4. Kept(a, <<upsert>> \o Rest(a)) /\ Full(a, <<upsert>> \o Rest(a))
      BY <2>1, <2>3, OneBeforeIsKept DEF RefreshOps
    <2> QED BY <2>1, <2>4 DEF Goal
  <1>10. CASE ReadNeighbours(a)
    <2> DEFINE clear == Do("clear", Neighbours)
    <2>1. At(a, "neighbours") /\ Continue(a, <<clear>> \o Rest(a))
      BY <1>10 DEF ReadNeighbours
    <2>2. clear \in RefreshStatement /\ clear.op = "clear"
      BY DEF RefreshStatement, Do
    <2> HIDE DEF clear
    <2>3. Kept(a, <<clear>> \o Rest(a)) /\ Full(a, <<clear>> \o Rest(a))
      BY <2>1, <2>2, OneBeforeIsKept DEF RefreshOps
    <2> QED BY <2>1, <2>3 DEF Goal
  <1>11. CASE NeighboursFail(a)
    <2> DEFINE clear == Do("clear", {})
    <2>1. At(a, "neighbours") /\ (Continue(a, <<clear>> \o Rest(a)) \/ Continue(a, Rest(a)))
      BY <1>11 DEF NeighboursFail
    <2>2. clear \in RefreshStatement /\ clear.op = "clear"
      BY DEF RefreshStatement, Do
    <2> HIDE DEF clear
    <2>3. Kept(a, <<clear>> \o Rest(a)) /\ Full(a, <<clear>> \o Rest(a))
      BY <2>1, <2>2, OneBeforeIsKept DEF RefreshOps
    <2>4. CASE Continue(a, Rest(a))
      BY <1>1, <2>1, <2>4
    <2>5. CASE Continue(a, <<clear>> \o Rest(a))
      BY <2>3, <2>5 DEF Goal
    <2> QED BY <2>1, <2>4, <2>5
  <1>12. CASE ClearLinks(a)
    <2>1. At(a, "clear") /\ Continue(a, Inserts(Arg(a)) \o Rest(a))
      BY <1>12 DEF ClearLinks
    <2>2. Arg(a) \in SUBSET Port
      BY <2>1, AtHead, ArgTypes DEF Arg
    <2>3. StatementsOf(a) = RefreshStatement
      BY <2>1, AtHead DEF RefreshOps, StatementsOf
    <2> QED BY <1>2, <2>1, <2>2, <2>3, InsertsList
  <1>13. CASE InsertLink(a)
    <2>1. At(a, "insert")
      BY <1>13 DEF InsertLink
    <2>2. PICK p \in Arg(a) : Continue(a, Inserts(Arg(a) \ {p}) \o Rest(a))
      BY <1>13 DEF InsertLink
    <2>3. Arg(a) \ {p} \in SUBSET Port
      BY <2>1, AtHead, ArgTypes DEF Arg
    <2>4. StatementsOf(a) = RefreshStatement
      BY <2>1, AtHead DEF RefreshOps, StatementsOf
    <2> QED BY <1>2, <2>1, <2>2, <2>3, <2>4, InsertsList
  <1>14. CASE Fails(a)
    <2>1. todo[a] # << >> /\ Continue(a, Caught(todo[a]))
      BY <1>14 DEF Fails, At
    <2> QED BY <1>14, <2>1, CaughtIsKept DEF Goal
  <1> QED BY <1>3, <1>4, <1>7, <1>8, <1>9, <1>10, <1>11, <1>12, <1>13, <1>14 DEF ActorStep, Step

-----------------------------------------------------------------------------
(* The steps of the system. *)

PlainAsk(q) ==
    \/ \E p \in Port, enabled, force \in BOOLEAN : AskAdmin(q, p, enabled, force)
    \/ \E p \in Port, how \in {"admin", "power"}, force \in BOOLEAN : AskCycle(q, p, how, force)
    \/ \E p \in Port, v \in AskedVlans : AskAccess(q, p, v)
    \/ \E v \in AskedVlans : AskBulk(q, v)

LEMMA NextSteps ==
    ASSUME Next
    PROVE  \/ \E q \in Req : PlainAsk(q)
           \/ \E q \in Req, p \in Port, allowed \in AskedLists : AskTrunk(q, p, allowed)
           \/ Refresh
           \/ \E a \in Actor : ActorStep(a)
           \/ \E p \in Port : ManualLink(p)
           \/ OnSite
  <1> DEFINE Goal == \/ \E q \in Req : PlainAsk(q)
                     \/ \E q \in Req, p \in Port, allowed \in AskedLists : AskTrunk(q, p, allowed)
                     \/ Refresh
                     \/ \E a \in Actor : ActorStep(a)
                     \/ \E p \in Port : ManualLink(p)
                     \/ OnSite
  <1>1. ASSUME NEW q \in Req, NEW p \in Port, NEW enabled \in BOOLEAN, NEW force \in BOOLEAN,
               AskAdmin(q, p, enabled, force)
        PROVE  Goal
    BY <1>1 DEF PlainAsk
  <1>2. ASSUME NEW q \in Req, NEW p \in Port, NEW how \in {"admin", "power"}, NEW force \in BOOLEAN,
               AskCycle(q, p, how, force)
        PROVE  Goal
    BY <1>2 DEF PlainAsk
  <1>3. ASSUME NEW q \in Req, NEW p \in Port, NEW v \in AskedVlans, AskAccess(q, p, v)
        PROVE  Goal
    BY <1>3 DEF PlainAsk
  <1>4. ASSUME NEW q \in Req, NEW v \in AskedVlans, AskBulk(q, v)
        PROVE  Goal
    BY <1>4 DEF PlainAsk
  <1>5. ASSUME NEW a \in Actor, Step(a) \/ Fails(a) \/ NeighboursFail(a)
        PROVE  Goal
    BY <1>5 DEF ActorStep
  <1>6. ASSUME NEW q \in Req, NEW p \in Port, NEW allowed \in AskedLists, AskTrunk(q, p, allowed)
        PROVE  Goal
    <2>1. \E q2 \in Req, p2 \in Port, allowed2 \in AskedLists : AskTrunk(q2, p2, allowed2)
      BY <1>6, Zenon
    <2> QED BY <2>1, Zenon
  <1>7. (Refresh => Goal) /\ ((\E p \in Port : ManualLink(p)) => Goal) /\ (OnSite => Goal)
    OBVIOUS
  <1> SUFFICES Goal
    OBVIOUS
  <1> HIDE DEF Goal
  <1>8. CASE \E q \in Req, p \in Port, enabled, force \in BOOLEAN :
                "admin" \in kinds /\ AskAdmin(q, p, enabled, force)
    BY <1>1, <1>8
  <1>9. CASE \E q \in Req, p \in Port, how \in {"admin", "power"}, force \in BOOLEAN :
                "cycle" \in kinds /\ AskCycle(q, p, how, force)
    BY <1>2, <1>9
  <1>10. CASE \E q \in Req, p \in Port :
                 /\ "config" \in kinds
                 /\ \/ \E v \in AskedVlans : AskAccess(q, p, v)
                    \/ \E allowed \in AskedLists : AskTrunk(q, p, allowed)
    <2>1. PICK q \in Req, p \in Port :
                 \/ \E v \in AskedVlans : AskAccess(q, p, v)
                 \/ \E allowed \in AskedLists : AskTrunk(q, p, allowed)
      BY <1>10
    <2>2. CASE \E v \in AskedVlans : AskAccess(q, p, v)
      BY <2>2, <1>3
    <2>3. CASE \E allowed \in AskedLists : AskTrunk(q, p, allowed)
      BY <2>3, <1>6
    <2> QED BY <2>1, <2>2, <2>3
  <1>11. CASE \E q \in Req, v \in AskedVlans : "config" \in kinds /\ AskBulk(q, v)
    BY <1>4, <1>11
  <1>12. CASE \E a \in Actor : Step(a) \/ Fails(a) \/ NeighboursFail(a)
    BY <1>5, <1>12
  <1>13. CASE Refresh \/ (\E p \in Port : ManualLink(p)) \/ OnSite
    BY <1>7, <1>13
  <1> QED BY <1>8, <1>9, <1>10, <1>11, <1>12, <1>13 DEF Next

LEMMA PlainAskList ==
    ASSUME NEW q \in Req, PlainAsk(q)
    PROVE  /\ UNCHANGED <<wanted, mixed>>
           /\ \E p, list :
                 /\ Ask(q, p, list) /\ list \in Seq(PortStatement) /\ Shape(list)
                 /\ Harmless(list) \/ \E force \in BOOLEAN : Guarded(list, p, force)
  <1> DEFINE Goal == \E p, list :
                 /\ Ask(q, p, list) /\ list \in Seq(PortStatement) /\ Shape(list)
                 /\ Harmless(list) \/ \E force \in BOOLEAN : Guarded(list, p, force)
  <1>1. UNCHANGED <<wanted, mixed>>
    BY DEF PlainAsk, AskAdmin, AskCycle, AskAccess, AskBulk
  <1> SUFFICES Goal
    BY <1>1
  <1>2. CASE \E p \in Port, enabled, force \in BOOLEAN : AskAdmin(q, p, enabled, force)
    <2>1. PICK p \in Port, enabled \in BOOLEAN, force \in BOOLEAN : AskAdmin(q, p, enabled, force)
      BY <1>2
    <2>2. Ask(q, p, PortOn(p)) \/ Ask(q, p, PortOff(p, force))
      BY <2>1 DEF AskAdmin
    <2>3. CASE Ask(q, p, PortOn(p))
      BY <2>3, PortOnList
    <2>4. CASE Ask(q, p, PortOff(p, force))
      BY <2>4, PortOffList
    <2> QED BY <2>2, <2>3, <2>4
  <1>3. CASE \E p \in Port, how \in {"admin", "power"}, force \in BOOLEAN : AskCycle(q, p, how, force)
    <2>1. PICK p \in Port, how \in {"admin", "power"}, force \in BOOLEAN : AskCycle(q, p, how, force)
      BY <1>3
    <2>2. Ask(q, p, Cycle(p, how, force))
      BY <2>1 DEF AskCycle
    <2> QED BY <2>2, CycleList
  <1>4. CASE \E p \in Port, v \in AskedVlans : AskAccess(q, p, v)
    <2>1. PICK p \in Port, v \in VLAN : AskAccess(q, p, v)
      BY <1>4
    <2>2. Ask(q, p, Access(p, v))
      BY <2>1 DEF AskAccess
    <2> QED BY <2>2, AccessList
  <1>5. CASE \E v \in AskedVlans : AskBulk(q, v)
    <2>1. PICK v \in VLAN : AskBulk(q, v)
      BY <1>5
    <2>2. Ask(q, None, Bulk(Port, v))
      BY <2>1 DEF AskBulk
    <2>3. Port \in SUBSET Port
      OBVIOUS
    <2> QED BY <2>2, <2>3, BulkList
  <1> QED BY <1>2, <1>3, <1>4, <1>5 DEF PlainAsk

LEMMA RefreshList ==
    ASSUME Refresh
    PROVE  \E list :
              /\ Continue("refresh", list) /\ list \in Seq(RefreshStatement) /\ Shape(list)
              /\ \A s \in Elements(list) : s.op \in {"take", "ports", "neighbours", "free"}
  <1> DEFINE ports == Do("ports", None)
             neighbours == Do("neighbours", None)
             Goal == \E list :
                 /\ Continue("refresh", list) /\ list \in Seq(RefreshStatement) /\ Shape(list)
                 /\ \A s \in Elements(list) : s.op \in {"take", "ports", "neighbours", "free"}
  <1> SUFFICES Goal
    OBVIOUS
  <1>1. /\ ports \in RefreshStatement /\ ports.op = "ports"
        /\ neighbours \in RefreshStatement /\ neighbours.op = "neighbours"
        /\ TakeSession \in RefreshStatement /\ TakeSession.op = "take"
        /\ FreeSession \in RefreshStatement /\ FreeSession.op = "free"
    BY DEF Do, TakeSession, FreeSession, RefreshStatement, SessionStatement
  <1>2. CASE vendor = "ssh"
    <2> DEFINE l == <<TakeSession, ports, neighbours, FreeSession>>
    <2>1. Continue("refresh", l)
      BY <1>2 DEF Refresh
    <2> HIDE DEF ports, neighbours
    <2>2. /\ l \in Seq(RefreshStatement) /\ Len(l) = 4
          /\ Elements(l) = {TakeSession, ports, neighbours, FreeSession}
          /\ l[1] = TakeSession /\ l[2] = ports /\ l[3] = neighbours /\ l[4] = FreeSession
      BY <1>1, Four
    <2> HIDE DEF l
    <2>3. Shape(l)
      BY <1>1, <2>2 DEF Shape
    <2>4. \A s \in Elements(l) : s.op \in {"take", "ports", "neighbours", "free"}
      BY <1>1, <2>2
    <2> QED BY <2>1, <2>2, <2>3, <2>4
  <1>3. CASE vendor # "ssh"
    <2> DEFINE l == <<ports, neighbours>>
    <2>1. Continue("refresh", l)
      BY <1>3 DEF Refresh
    <2> HIDE DEF ports, neighbours
    <2>2. /\ l \in Seq(RefreshStatement) /\ Len(l) = 2 /\ Elements(l) = {ports, neighbours}
          /\ l[1] = ports /\ l[2] = neighbours
      BY <1>1, Two
    <2> HIDE DEF l
    <2>3. Shape(l)
      BY <1>1, <2>2 DEF Shape
    <2>4. \A s \in Elements(l) : s.op \in {"take", "ports", "neighbours", "free"}
      BY <1>1, <2>2
    <2> QED BY <2>1, <2>2, <2>3, <2>4
  <1> QED BY <1>2, <1>3

-----------------------------------------------------------------------------
(* The lists stay as they should be. *)

LEMMA OneList ==
    ASSUME ListInv, NEW a \in Actor, NEW list \in Seq(StatementsOf(a)), Shape(list), Continue(a, list)
    PROVE  ListInv'
  <1>1. list \in Seq(Statement)
    <2>1. StatementsOf(a) \subseteq Statement
      BY DEF StatementsOf, Statement
    <2> QED BY <2>1, SeqMonotonic
  <1>2. todo' \in [Actor -> Seq(Statement)]
    BY <1>1 DEF ListInv, Continue
  <1>3. ASSUME NEW b \in Actor
        PROVE  todo'[b] \in Seq(StatementsOf(b)) /\ Shape(todo'[b])
    <2>1. CASE b = a
      BY <2>1 DEF ListInv, Continue
    <2>2. CASE b # a
      BY <2>2 DEF ListInv, Continue
    <2> QED BY <2>1, <2>2
  <1> QED BY <1>2, <1>3 DEF ListInv

LEMMA ListInvHolds ==
    ASSUME ListInv, DataTypes, [Next]_vars
    PROVE  ListInv'
  <1>1. CASE \E q \in Req : PlainAsk(q)
    <2>1. PICK q \in Req : PlainAsk(q)
      BY <1>1
    <2>2. PICK p, list : Ask(q, p, list) /\ list \in Seq(PortStatement) /\ Shape(list)
      BY <2>1, PlainAskList
    <2>3. q \in Actor /\ StatementsOf(q) = PortStatement
      BY DEF Actor, StatementsOf
    <2>4. Continue(q, list)
      BY <2>2 DEF Ask
    <2> QED BY <2>2, <2>3, <2>4, OneList
  <1>2. CASE \E q \in Req, p \in Port, allowed \in AskedLists : AskTrunk(q, p, allowed)
    <2>1. PICK q \in Req, p \in Port, allowed \in SUBSET VLAN : AskTrunk(q, p, allowed)
      BY <1>2
    <2>2. Continue(q, Trunk(p, allowed))
      BY <2>1 DEF AskTrunk, Ask
    <2>3. q \in Actor /\ StatementsOf(q) = PortStatement
      BY DEF Actor, StatementsOf
    <2>4. Trunk(p, allowed) \in Seq(PortStatement) /\ Shape(Trunk(p, allowed))
      BY TrunkList
    <2> QED BY <2>2, <2>3, <2>4, OneList
  <1>3. CASE Refresh
    <2>1. PICK list : Continue("refresh", list) /\ list \in Seq(RefreshStatement) /\ Shape(list)
      BY <1>3, RefreshList
    <2>2. "refresh" \in Actor /\ StatementsOf("refresh") = RefreshStatement
      BY DEF Actor, StatementsOf
    <2> QED BY <2>1, <2>2, OneList
  <1>4. CASE \E a \in Actor : ActorStep(a)
    <2>1. PICK a \in Actor : ActorStep(a)
      BY <1>4
    <2>2. PICK list : Continue(a, list) /\ Kept(a, list)
      BY <2>1, StepList
    <2> QED BY <2>2, OneList DEF Kept
  <1>5. CASE UNCHANGED todo
    BY <1>5 DEF ListInv
  <1>6. CASE \E p \in Port : ManualLink(p)
    BY <1>5, <1>6 DEF ManualLink
  <1>7. CASE OnSite
    BY <1>5, <1>7 DEF OnSite
  <1>8. CASE UNCHANGED vars
    BY <1>5, <1>8 DEF vars
  <1> QED BY <1>1, <1>2, <1>3, <1>4, <1>6, <1>7, <1>8, NextSteps

-----------------------------------------------------------------------------
(* Types. *)

LEMMA TypesStay ==
    ASSUME DataTypes, UNCHANGED <<setting, switch, tables, session>>
    PROVE  DataTypes'
  BY DEF DataTypes, setting, switch, tables

LEMMA RowTypes ==
    ASSUME ListInv, NEW a \in Actor, UpdateRow(a),
           rows \in [Port -> [admin : BOOLEAN, vlan : VLAN \cup {Trunked}]]
    PROVE  rows' \in [Port -> [admin : BOOLEAN, vlan : VLAN \cup {Trunked}]]
  <1> DEFINE w == Arg(a)
  <1>1. w \in RowChange
    BY AtHead, ArgTypes DEF UpdateRow, Arg
  <1>2. rows' = [rows EXCEPT ![w.port] = [rows[w.port] EXCEPT ![w.field] = w.value]]
    BY DEF UpdateRow
  <1> HIDE DEF w
  <1>3. w.port \in Port
    BY <1>1 DEF RowChange
  <1>4. CASE w.field = "admin" /\ w.value \in BOOLEAN
    <2>1. [rows[w.port] EXCEPT ![w.field] = w.value] = [admin |-> w.value, vlan |-> rows[w.port].vlan]
      BY <1>3, <1>4
    <2> QED BY <1>2, <1>3, <1>4, <2>1
  <1>5. CASE w.field = "vlan" /\ w.value \in VlanValue
    <2>1. [rows[w.port] EXCEPT ![w.field] = w.value] = [admin |-> rows[w.port].admin, vlan |-> w.value]
      BY <1>3, <1>5
    <2> QED BY <1>2, <1>3, <1>5, <2>1 DEF VlanValue
  <1> QED BY <1>1, <1>4, <1>5 DEF RowChange

LEMMA BitmapTypes ==
    ASSUME ListInv, DataTypes, NEW a \in Actor, SetVlanBitmapPort(a)
    PROVE  /\ egress' \in [VLAN -> SUBSET Port] /\ untagged' \in [VLAN -> SUBSET Port]
           /\ Arg(a) \in Write
  <1> DEFINE w == Arg(a)
  <1>1. w \in Write
    BY AtHead, ArgTypes DEF SetVlanBitmapPort, Arg
  <1>2. /\ egress' = [egress EXCEPT ![w.vlan] = With(w.egress, w.port, w.member)]
        /\ untagged' = [untagged EXCEPT ![w.vlan] = w.untagged \ {w.port}]
    BY DEF SetVlanBitmapPort
  <1> HIDE DEF w
  <1>3. With(w.egress, w.port, w.member) \in SUBSET Port /\ w.untagged \ {w.port} \in SUBSET Port
       /\ w.vlan \in VLAN
    BY <1>1 DEF Write, With
  <1> QED BY <1>1, <1>2, <1>3 DEF DataTypes, w

LEMMA StepTypes ==
    ASSUME ListInv, DataTypes, NEW a \in Actor, ActorStep(a)
    PROVE  DataTypes'
  <1>1. CASE Guard(a) \/ ReadVlanBitmaps(a) \/ NextPort(a)
               \/ ReadPorts(a) \/ ReadNeighbours(a) \/ NeighboursFail(a)
    BY <1>1, TypesStay DEF Guard, ReadVlanBitmaps, NextPort, ReadPorts, ReadNeighbours, NeighboursFail
  <1>2. CASE Take(a)
    BY <1>2 DEF Take, DataTypes, setting, switch, tables
  <1>3. CASE Free(a)
    BY <1>3 DEF Free, DataTypes, setting, switch, tables
  <1>4. CASE SwitchOff(a)
    <2>1. Arg(a).what \in Port \X {"admin", "power"}
      BY <1>4, AtHead, ArgTypes DEF SwitchOff, Arg, What
    <2>2. off' \subseteq Port \X {"admin", "power"}
      BY <1>4, <2>1 DEF SwitchOff, DataTypes
    <2> QED BY <1>4, <2>2 DEF SwitchOff, DataTypes, setting, tables
  <1>5. CASE SwitchOn(a)
    BY <1>5 DEF SwitchOn, DataTypes, setting, tables
  <1>6. CASE SetVlan(a)
    <2>1. Arg(a).vlan \in VLAN \cup {Trunked}
      BY <1>6, AtHead, ArgTypes DEF SetVlan, Arg, VlanValue
    <2>2. vlan' \in [Port -> VLAN \cup {Trunked}]
      BY <1>6, <2>1 DEF SetVlan, DataTypes
    <2> QED BY <1>6, <2>2 DEF SetVlan, DataTypes, setting, tables
  <1>7. CASE SetVlanBitmapPort(a)
    <2>1. egress' \in [VLAN -> SUBSET Port] /\ untagged' \in [VLAN -> SUBSET Port]
      BY <1>7, BitmapTypes
    <2> QED BY <1>7, <2>1 DEF SetVlanBitmapPort, DataTypes, setting, tables
  <1>8. CASE UpdateRow(a)
    <2>1. rows' \in [Port -> [admin : BOOLEAN, vlan : VLAN \cup {Trunked}]]
      BY <1>8, RowTypes DEF DataTypes
    <2> QED BY <1>8, <2>1 DEF UpdateRow, DataTypes, setting, switch
  <1>9. CASE UpsertPorts(a)
    <2>1. rows' \in [Port -> [admin : BOOLEAN, vlan : VLAN \cup {Trunked}]]
      BY <1>9, AtHead, ArgTypes DEF UpsertPorts, Arg, RowType, VlanValue
    <2> QED BY <1>9, <2>1 DEF UpsertPorts, DataTypes, setting, switch
  <1>10. CASE ClearLinks(a)
    BY <1>10 DEF ClearLinks, DataTypes, setting, switch
  <1>11. CASE InsertLink(a)
    <2>1. Arg(a) \in SUBSET Port
      BY <1>11, AtHead, ArgTypes DEF InsertLink, Arg
    <2>2. links' \subseteq Port
      BY <1>11, <2>1 DEF InsertLink, DataTypes
    <2> QED BY <1>11, <2>2 DEF InsertLink, DataTypes, setting, switch
  <1>12. CASE Fails(a)
    BY <1>12 DEF Fails, DataTypes, setting, switch, tables
  <1> QED BY <1>1, <1>2, <1>3, <1>4, <1>5, <1>6, <1>7, <1>8, <1>9, <1>10, <1>11, <1>12 DEF ActorStep, Step

LEMMA DataTypesHold ==
    ASSUME ListInv, DataTypes, [Next]_vars
    PROVE  DataTypes'
  <1>1. ASSUME NEW q \in Req, PlainAsk(q)
        PROVE  DataTypes'
    <2>1. PICK p, list : Ask(q, p, list)
      BY <1>1, PlainAskList
    <2> QED BY <2>1, TypesStay DEF Ask
  <1>2. ASSUME NEW q \in Req, NEW p \in Port, NEW allowed \in AskedLists, AskTrunk(q, p, allowed)
        PROVE  DataTypes'
    BY <1>2, TypesStay DEF AskTrunk, Ask
  <1>3. CASE Refresh
    BY <1>3, TypesStay DEF Refresh
  <1>4. ASSUME NEW a \in Actor, ActorStep(a)
        PROVE  DataTypes'
    BY <1>4, StepTypes
  <1>5. ASSUME NEW p \in Port, ManualLink(p)
        PROVE  DataTypes'
    BY <1>5 DEF ManualLink, DataTypes, setting, switch
  <1>6. CASE OnSite
    BY <1>6 DEF OnSite, DataTypes, setting, tables
  <1>7. CASE UNCHANGED vars
    BY <1>7, TypesStay DEF vars
  <1> QED BY <1>1, <1>2, <1>3, <1>4, <1>5, <1>6, <1>7, NextSteps

-----------------------------------------------------------------------------
(* Who holds the session is going to give it back. *)

HoldInv ==
    session # None =>
        /\ \E s \in Elements(todo[session]) : s.op = "free"
        /\ \A s \in Elements(todo[session]) : s.op # "guard"

LEMMA HolderIsBusy ==
    ASSUME DataTypes, HoldInv
    PROVE  TypeOK
  <1>1. session # None => todo[session] # << >>
    BY ElementsOfEmpty DEF HoldInv
  <1> QED BY <1>1 DEF DataTypes, TypeOK

LEMMA OthersHold ==
    ASSUME HoldInv, DataTypes, ListInv, UNCHANGED session,
           NEW a \in Actor, a # session, NEW list, Continue(a, list)
    PROVE  HoldInv'
  <1>1. session # None => session \in Actor
    BY DEF DataTypes
  <1>2. session # None => todo'[session] = todo[session]
    BY <1>1 DEF Continue, ListInv
  <1> QED BY <1>2 DEF HoldInv

LEMMA IdleHoldsNothing ==
    ASSUME HoldInv, NEW a \in Actor, todo[a] = << >>
    PROVE  a # session
  <1>1. a # None
    BY DEF Actor
  <1> QED BY <1>1, ElementsOfEmpty DEF HoldInv

LEMMA SessionSteps ==
    ASSUME NEW a \in Actor, ActorStep(a)
    PROVE  \/ Take(a) \/ Free(a) \/ Fails(a)
           \/ UNCHANGED session /\ ~At(a, "free")
  <1>1. CASE Guard(a)
    BY <1>1 DEF Guard, At
  <1>2. CASE SwitchOff(a)
    BY <1>2 DEF SwitchOff, At
  <1>3. CASE SwitchOn(a)
    BY <1>3 DEF SwitchOn, At
  <1>4. CASE SetVlan(a)
    BY <1>4 DEF SetVlan, At
  <1>5. CASE ReadVlanBitmaps(a)
    BY <1>5 DEF ReadVlanBitmaps, At
  <1>6. CASE SetVlanBitmapPort(a)
    BY <1>6 DEF SetVlanBitmapPort, At
  <1>7. CASE NextPort(a)
    BY <1>7 DEF NextPort, At
  <1>8. CASE UpdateRow(a)
    BY <1>8 DEF UpdateRow, At
  <1>9. CASE ReadPorts(a)
    BY <1>9 DEF ReadPorts, At
  <1>10. CASE UpsertPorts(a)
    BY <1>10 DEF UpsertPorts, At
  <1>11. CASE ReadNeighbours(a)
    BY <1>11 DEF ReadNeighbours, At
  <1>12. CASE ClearLinks(a)
    BY <1>12 DEF ClearLinks, At
  <1>13. CASE InsertLink(a)
    BY <1>13 DEF InsertLink, At
  <1>14. CASE NeighboursFail(a)
    BY <1>14 DEF NeighboursFail, At
  <1> QED BY <1>1, <1>2, <1>3, <1>4, <1>5, <1>6, <1>7, <1>8, <1>9, <1>10, <1>11, <1>12, <1>13, <1>14
          DEF ActorStep, Step

LEMMA TakeHolds ==
    ASSUME ListInv, NEW a \in Actor, Take(a)
    PROVE  HoldInv'
  <1>1. At(a, "take") /\ session' = a /\ todo' = [todo EXCEPT ![a] = Rest(a)]
    BY DEF Take, Continue
  <1>2. todo'[a] = Rest(a)
    BY <1>1 DEF ListInv
  <1>3. Elements(todo[a]) = {Head(todo[a])} \cup Elements(Rest(a)) /\ Head(todo[a]).op = "take"
    BY <1>1, AtHead
  <1>4. \E s \in Elements(Rest(a)) : s.op = "free"
    <2>1. todo[a] \in Seq(StatementsOf(a)) /\ todo[a] # << >> /\ Shape(todo[a])
      BY <1>1 DEF ListInv, At
    <2>2. 1 \in 1 .. Len(todo[a]) /\ todo[a][1] = Head(todo[a])
      <3>1. Len(todo[a]) \in Nat \ {0}
        BY <2>1, EmptySeq
      <3> QED BY <3>1
    <2>3. PICK j \in 1 + 1 .. Len(todo[a]) : todo[a][j].op = "free"
      BY <1>3, <2>1, <2>2 DEF Shape
    <2>4. todo[a][j] \in Elements(todo[a])
      BY <2>3 DEF Elements
    <2> QED BY <1>3, <2>3, <2>4
  <1>5. \A s \in Elements(Rest(a)) : s.op # "guard"
    BY <1>1, RestIsMild DEF Mild, Elements
  <1> QED BY <1>1, <1>2, <1>4, <1>5 DEF HoldInv

LEMMA HoldInvHolds ==
    ASSUME HoldInv, DataTypes, ListInv, [Next]_vars
    PROVE  HoldInv'
  <1>1. ASSUME NEW q \in Req, NEW p, NEW list, Ask(q, p, list)
        PROVE  HoldInv'
    <2>1. q \in Actor /\ todo[q] = << >> /\ Continue(q, list) /\ UNCHANGED session
      BY <1>1 DEF Ask, Actor
    <2> QED BY <2>1, IdleHoldsNothing, OthersHold
  <1>2. CASE Refresh
    <2>1. "refresh" \in Actor /\ todo["refresh"] = << >> /\ UNCHANGED session
      BY <1>2 DEF Refresh, Actor
    <2>2. PICK list : Continue("refresh", list)
      BY <1>2, RefreshList
    <2> QED BY <2>1, <2>2, IdleHoldsNothing, OthersHold
  <1>3. ASSUME NEW a \in Actor, ActorStep(a)
        PROVE  HoldInv'
    <2>1. PICK list : Continue(a, list) /\ Kept(a, list) /\ (Full(a, list) \/ Fails(a))
      BY <1>3, StepList
    <2>2. CASE Take(a)
      BY <2>2, TakeHolds
    <2>3. CASE Free(a)
      BY <2>3 DEF Free, HoldInv
    <2>4. CASE UNCHANGED session /\ a # session
      BY <2>1, <2>4, OthersHold
    <2>5. CASE Fails(a)
      <3>1. session' = None \/ (UNCHANGED session /\ a # session)
        BY <2>5 DEF Fails
      <3> QED BY <2>4, <3>1 DEF HoldInv
    <2>6. CASE UNCHANGED session /\ a = session /\ ~At(a, "free") /\ ~Fails(a)
      <3>1. a # None /\ todo'[a] = list
        BY <2>1 DEF Actor, Continue, ListInv
      <3>2. PICK s \in Elements(todo[a]) : s.op = "free"
        BY <2>6, <3>1 DEF HoldInv
      <3>3. \A x \in Elements(todo[a]) : x.op # "guard"
        BY <2>6, <3>1 DEF HoldInv
      <3>4. todo[a] # << >> /\ todo[a] \in Seq(StatementsOf(a))
        BY <3>2, ElementsOfEmpty DEF ListInv
      <3>5. Elements(todo[a]) = {Head(todo[a])} \cup Elements(Rest(a))
        BY <3>4, ElementsOfTail DEF Rest
      <3>6. Head(todo[a]).op # "free" /\ ~At(a, "guard")
        BY <2>6, <3>3, <3>4, <3>5 DEF At
      <3>7. s \in Elements(list)
        BY <2>1, <2>6, <3>2, <3>5, <3>6 DEF Full
      <3>8. \A x \in Elements(list) : x.op # "guard"
        BY <2>1, <3>3, <3>5 DEF Kept
      <3> QED BY <2>6, <3>1, <3>2, <3>7, <3>8 DEF HoldInv
    <2> QED BY <1>3, <2>2, <2>3, <2>4, <2>5, <2>6, SessionSteps
  <1>4. CASE UNCHANGED <<session, todo>>
    BY <1>4 DEF HoldInv
  <1>5. CASE \E q \in Req : PlainAsk(q)
    BY <1>1, <1>5, PlainAskList
  <1>6. CASE \E q \in Req, p \in Port, allowed \in AskedLists : AskTrunk(q, p, allowed)
    BY <1>1, <1>6 DEF AskTrunk
  <1>7. CASE \E p \in Port : ManualLink(p)
    BY <1>4, <1>7 DEF ManualLink
  <1>8. CASE OnSite
    BY <1>4, <1>8 DEF OnSite
  <1>9. CASE UNCHANGED vars
    BY <1>4, <1>9 DEF vars
  <1> QED BY <1>2, <1>3, <1>5, <1>6, <1>7, <1>8, <1>9, NextSteps

LEMMA StepsAreOfBusy ==
    ASSUME NEW a \in Actor, ActorStep(a)
    PROVE  todo[a] # << >>
  <1>1. CASE Guard(a) \/ Take(a) \/ Free(a) \/ SwitchOff(a) \/ SwitchOn(a) \/ SetVlan(a)
    BY <1>1 DEF Guard, Take, Free, SwitchOff, SwitchOn, SetVlan, At
  <1>2. CASE ReadVlanBitmaps(a) \/ SetVlanBitmapPort(a) \/ NextPort(a) \/ UpdateRow(a)
    BY <1>2 DEF ReadVlanBitmaps, SetVlanBitmapPort, NextPort, UpdateRow, At
  <1>3. CASE ReadPorts(a) \/ UpsertPorts(a) \/ ReadNeighbours(a) \/ ClearLinks(a) \/ InsertLink(a)
    BY <1>3 DEF ReadPorts, UpsertPorts, ReadNeighbours, ClearLinks, InsertLink, At
  <1>4. CASE Fails(a) \/ NeighboursFail(a)
    BY <1>4 DEF Fails, NeighboursFail, At
  <1> QED BY <1>1, <1>2, <1>3, <1>4 DEF ActorStep, Step

-----------------------------------------------------------------------------
(* What is off returns. *)

LEMMA OffSteps ==
    ASSUME NEW a \in Actor, ActorStep(a)
    PROVE  \/ SwitchOff(a) \/ SwitchOn(a) \/ Fails(a)
           \/ UNCHANGED <<off, disabled, broken>> /\ ~At(a, "on")
  <1>1. CASE Guard(a) \/ Take(a) \/ Free(a)
    BY <1>1 DEF Guard, Take, Free, At, switch, history
  <1>2. CASE SetVlan(a) \/ ReadVlanBitmaps(a)
    BY <1>2 DEF SetVlan, ReadVlanBitmaps, At, switch, history
  <1>3. CASE SetVlanBitmapPort(a) \/ NextPort(a) \/ UpdateRow(a)
    BY <1>3 DEF SetVlanBitmapPort, NextPort, UpdateRow, At, switch, history
  <1>4. CASE ReadPorts(a) \/ UpsertPorts(a) \/ ReadNeighbours(a)
    BY <1>4 DEF ReadPorts, UpsertPorts, ReadNeighbours, At, switch, history
  <1>5. CASE ClearLinks(a) \/ InsertLink(a) \/ NeighboursFail(a)
    BY <1>5 DEF ClearLinks, InsertLink, NeighboursFail, At, switch, history
  <1> QED BY <1>1, <1>2, <1>3, <1>4, <1>5 DEF ActorStep, Step

\* A list is about to bring back what another list has not touched.
LEMMA OthersReturn ==
    ASSUME ListInv, NEW a \in Actor, NEW list, Continue(a, list), NEW q \in Req, q # a
    PROVE  (At(q, "on"))' = At(q, "on") /\ Arg(q)' = Arg(q)
  <1>1. todo'[q] = todo[q]
    BY DEF Continue, ListInv, Actor
  <1> QED BY <1>1 DEF At, Arg

LEMMA OffReturns ==
    ASSUME ListInv, CutPortsReturn, NEW a \in Actor, SwitchOff(a)
    PROVE  CutPortsReturn'
  <1>1. At(a, "off") /\ Continue(a, Rest(a)) /\ off' = off \cup {Arg(a).what} /\ broken' = broken
    BY DEF SwitchOff
  <1>2. a \in Req /\ Head(todo[a]) = todo[a][1] /\ todo[a][1].op = "off"
    BY <1>1, AtHead DEF RequestOps, ListInv
  <1>3. ASSUME NEW what \in off
        PROVE  what \in disabled' \cup broken' \/ \E q \in Req : At(q, "on")' /\ Arg(q)' = what
    <2>1. CASE what \in disabled \cup broken
      BY <1>1, <2>1 DEF SwitchOff
    <2>2. CASE \E q \in Req : At(q, "on") /\ Arg(q) = what
      <3>1. PICK q \in Req : At(q, "on") /\ Arg(q) = what
        BY <2>2
      <3>2. q # a
        BY <1>1, <3>1 DEF At
      <3> QED BY <1>1, <3>1, <3>2, OthersReturn
    <2> QED BY <2>1, <2>2 DEF CutPortsReturn
  <1>4. CASE ~Arg(a).back
    <2>1. Arg(a).what \in disabled'
      BY <1>4 DEF SwitchOff
    <2> QED BY <1>1, <1>3, <2>1 DEF CutPortsReturn
  <1>5. CASE Arg(a).back
    <2>1. todo[a] \in Seq(StatementsOf(a)) /\ todo[a] # << >> /\ Shape(todo[a])
      BY <1>1 DEF ListInv, At
    <2>2. Len(todo[a]) \in Nat \ {0}
      BY <2>1, EmptySeq
    <2>3. 1 < Len(todo[a]) /\ todo[a][1 + 1].op = "on" /\ todo[a][1 + 1].arg = Arg(a).what
      BY <1>2, <1>5, <2>1, <2>2 DEF Shape, Arg
    <2>4. Rest(a) \in Seq(StatementsOf(a)) /\ Len(Rest(a)) = Len(todo[a]) - 1 /\ Rest(a)[1] = todo[a][1 + 1]
      BY <2>1, <2>2, <2>3, HeadTailProperties DEF Rest
    <2>5. Rest(a) # << >> /\ Head(Rest(a)) = Rest(a)[1]
      BY <2>2, <2>3, <2>4, EmptySeq
    <2>6. todo'[a] = Rest(a)
      BY <1>1 DEF Continue, ListInv
    <2>7. At(a, "on")' /\ Arg(a)' = Arg(a).what
      BY <2>3, <2>4, <2>5, <2>6 DEF At, Arg
    <2> QED BY <1>1, <1>2, <1>3, <2>7 DEF CutPortsReturn
  <1> QED BY <1>4, <1>5

LEMMA CutPortsReturnHolds ==
    ASSUME ListInv, DataTypes, CutPortsReturn, [Next]_vars
    PROVE  CutPortsReturn'
  <1>1. ASSUME UNCHANGED <<off, disabled, broken>>, NEW a \in Actor, NEW list, Continue(a, list), ~At(a, "on")
        PROVE  CutPortsReturn'
    <2>1. \A q \in Req : At(q, "on") => At(q, "on")' /\ Arg(q)' = Arg(q)
      BY <1>1, OthersReturn
    <2> QED BY <1>1, <2>1 DEF CutPortsReturn
  <1>2. ASSUME NEW q \in Req, NEW p, NEW list, Ask(q, p, list)
        PROVE  CutPortsReturn'
    <2>1. q \in Actor /\ ~At(q, "on") /\ Continue(q, list) /\ UNCHANGED <<off, disabled, broken>>
      BY <1>2 DEF Ask, At, Actor, switch
    <2> QED BY <1>1, <2>1
  <1>3. CASE Refresh
    <2>1. "refresh" \in Actor /\ ~At("refresh", "on") /\ UNCHANGED <<off, disabled, broken>>
      BY <1>3 DEF Refresh, At, Actor, switch, history
    <2>2. PICK list : Continue("refresh", list)
      BY <1>3, RefreshList
    <2> QED BY <1>1, <2>1, <2>2
  <1>4. ASSUME NEW a \in Actor, ActorStep(a)
        PROVE  CutPortsReturn'
    <2>1. PICK list : Continue(a, list)
      BY <1>4, StepList
    <2>2. CASE SwitchOff(a)
      BY <2>2, OffReturns
    <2>3. CASE SwitchOn(a)
      <3>1. /\ off' = off \ {Arg(a)} /\ disabled' = disabled \ {Arg(a)} /\ broken' = broken \ {Arg(a)}
        BY <2>3 DEF SwitchOn
      <3>2. ASSUME NEW what \in off', NEW q \in Req, At(q, "on"), Arg(q) = what
            PROVE  At(q, "on")' /\ Arg(q)' = what
        <4>1. q # a
          BY <3>1, <3>2
        <4> QED BY <2>1, <3>2, <4>1, OthersReturn
      <3> QED BY <3>1, <3>2 DEF CutPortsReturn
    <2>4. CASE Fails(a)
      <3>1. off' = off /\ disabled' = disabled /\ broken \subseteq broken'
            /\ (At(a, "on") /\ Arg(a) \in off => Arg(a) \in broken')
        BY <2>4 DEF Fails, switch
      <3>2. ASSUME NEW what \in off, NEW q \in Req, At(q, "on"), Arg(q) = what
            PROVE  what \in broken' \/ (At(q, "on")' /\ Arg(q)' = what)
        <4>1. CASE q = a
          BY <3>1, <3>2, <4>1
        <4>2. CASE q # a
          BY <2>1, <3>2, <4>2, OthersReturn
        <4> QED BY <4>1, <4>2
      <3> QED BY <3>1, <3>2 DEF CutPortsReturn
    <2>5. CASE UNCHANGED <<off, disabled, broken>> /\ ~At(a, "on")
      BY <1>1, <2>1, <2>5
    <2> QED BY <1>4, <2>2, <2>3, <2>4, <2>5, OffSteps
  <1>5. CASE \E q \in Req : PlainAsk(q)
    BY <1>2, <1>5, PlainAskList
  <1>6. CASE \E q \in Req, p \in Port, allowed \in AskedLists : AskTrunk(q, p, allowed)
    BY <1>2, <1>6 DEF AskTrunk
  <1>7. CASE UNCHANGED <<off, disabled, broken, todo>>
    BY <1>7 DEF CutPortsReturn, At, Arg
  <1>8. CASE \E p \in Port : ManualLink(p)
    BY <1>7, <1>8 DEF ManualLink, switch
  <1>9. CASE OnSite
    BY <1>9 DEF OnSite, CutPortsReturn
  <1>10. CASE UNCHANGED vars
    BY <1>7, <1>10 DEF vars, switch, history
  <1> QED BY <1>3, <1>4, <1>5, <1>6, <1>8, <1>9, <1>10, NextSteps

-----------------------------------------------------------------------------
(* A manual link spares its port. *)

\* Where a manual link has been all along, what an unforced request still has to take down
\* is behind a guard that will see the link.
Spared(q) ==
    \A s \in Elements(todo[q]) :
        s.op = "off" /\ ~s.arg.force => At(q, "guard") /\ ~Arg(q).force /\ Arg(q).port \in manual
SignedInv ==
    /\ signed \in [Req -> BOOLEAN]
    /\ \A q \in Req : signed[q] => Spared(q)

LEMMA SignedSpares ==
    ASSUME ListInv, SignedInv
    PROVE  ManualUplinkIsSpared
  <1>1. ASSUME NEW q \in Req, At(q, "off"), ~Arg(q).force, signed[q]
        PROVE  FALSE
    <2>1. q \in Actor
      BY DEF Actor
    <2>2. Head(todo[q]) \in Elements(todo[q]) /\ Head(todo[q]).op = "off"
      BY <1>1, <2>1, AtHead
    <2>3. At(q, "guard")
      BY <1>1, <2>2 DEF SignedInv, Spared, Arg
    <2> QED BY <2>2, <2>3 DEF At
  <1> QED BY <1>1 DEF ManualUplinkIsSpared

\* A list that another actor's step leaves alone.
LEMMA OthersSpared ==
    ASSUME ListInv, NEW a \in Actor, NEW list, Continue(a, list), manual' = manual,
           NEW q \in Req, q # a, Spared(q)
    PROVE  Spared(q)'
  <1>1. todo'[q] = todo[q]
    BY DEF Continue, ListInv, Actor
  <1> QED BY <1>1 DEF Spared, At, Arg

LEMMA StepSpares ==
    ASSUME ListInv, DataTypes, NEW q \in Req, ActorStep(q), Spared(q)
    PROVE  Spared(q)'
  <1>1. q \in Actor
    BY DEF Actor
  <1>2. PICK list : Continue(q, list) /\ Kept(q, list)
    BY <1>1, StepList
  <1>3. todo[q] # << >> /\ todo[q] \in Seq(StatementsOf(q))
    BY <1>1, StepsAreOfBusy DEF ListInv
  <1>4. Elements(todo[q]) = {Head(todo[q])} \cup Elements(Rest(q))
    BY <1>3, ElementsOfTail DEF Rest
  <1>5. todo'[q] = list
    BY <1>1, <1>2 DEF Continue, ListInv
  <1>6. ASSUME NEW s \in Elements(list), s.op = "off", ~s.arg.force
        PROVE  FALSE
    <2>1. s \in Elements(Rest(q)) /\ s \in Elements(todo[q])
      BY <1>2, <1>4, <1>6 DEF Kept
    <2>2. At(q, "guard") /\ ~Arg(q).force /\ Arg(q).port \in manual
      BY <1>6, <2>1 DEF Spared
    <2>3. Guard(q)
      BY <2>2 DEF ActorStep, Step, Guard, Take, Free, SwitchOff, SwitchOn, SetVlan, ReadVlanBitmaps,
                  SetVlanBitmapPort, NextPort, UpdateRow, ReadPorts, UpsertPorts, ReadNeighbours,
                  ClearLinks, InsertLink, Fails, NeighboursFail, At, OnSwitch
    <2>4. Continue(q, << >>)
      BY <2>2, <2>3 DEF Guard
    <2>5. todo'[q] = << >>
      BY <1>1, <2>4 DEF Continue, ListInv
    <2> QED BY <1>5, <1>6, <2>5, ElementsOfEmpty
  <1> QED BY <1>5, <1>6 DEF Spared

LEMMA AskSpares ==
    ASSUME ListInv, NEW q \in Req, NEW p, NEW list, Ask(q, p, list), p \in manual,
           (\A s \in Elements(list) : s.op # "off") \/ \E force \in BOOLEAN : Guarded(list, p, force)
    PROVE  Spared(q)'
  <1>1. q \in Actor /\ todo' = [todo EXCEPT ![q] = list] /\ manual' = manual
    BY DEF Ask, Actor, Continue, tables
  <1>2. todo'[q] = list
    BY <1>1 DEF ListInv
  <1>3. CASE \A s \in Elements(list) : s.op # "off"
    BY <1>2, <1>3 DEF Spared
  <1>4. CASE \E force \in BOOLEAN : Guarded(list, p, force)
    <2>1. PICK force \in BOOLEAN : Guarded(list, p, force)
      BY <1>4
    <2>2. /\ list # << >> /\ Head(list).op = "guard" /\ Head(list).arg.port = p
          /\ Head(list).arg.force = force
      BY <2>1 DEF Guarded
    <2>3. At(q, "guard")' /\ Arg(q)' = Head(list).arg
      BY <1>2, <2>2 DEF At, Arg
    <2>4. \A s \in Elements(list) : s.op = "off" => s.arg.force = force
      BY <2>1 DEF Guarded
    <2> QED BY <1>1, <1>2, <2>2, <2>3, <2>4 DEF Spared
  <1> QED BY <1>3, <1>4

LEMMA AskKeepsSigned ==
    ASSUME ListInv, SignedInv, NEW q \in Req, NEW p, NEW list, Ask(q, p, list),
           (\A s \in Elements(list) : s.op # "off") \/ \E force \in BOOLEAN : Guarded(list, p, force)
    PROVE  SignedInv'
  <1>1. /\ q \in Actor /\ Continue(q, list) /\ manual' = manual
        /\ signed' = [signed EXCEPT ![q] = p \in manual]
    BY DEF Ask, Actor, tables
  <1>2. signed' \in [Req -> BOOLEAN]
    BY <1>1 DEF SignedInv
  <1>3. ASSUME NEW r \in Req, signed'[r]
        PROVE  Spared(r)'
    <2>1. CASE r = q
      <3>1. p \in manual
        BY <1>1, <1>3, <2>1 DEF SignedInv
      <3> QED BY <2>1, <3>1, AskSpares
    <2>2. CASE r # q
      <3>1. signed[r]
        BY <1>1, <1>3, <2>2 DEF SignedInv
      <3>2. Spared(r)
        BY <3>1 DEF SignedInv
      <3> QED BY <1>1, <2>2, <3>2, OthersSpared
    <2> QED BY <2>1, <2>2
  <1> QED BY <1>2, <1>3 DEF SignedInv

LEMMA SignedInvHolds ==
    ASSUME ListInv, DataTypes, SignedInv, [Next]_vars
    PROVE  SignedInv'
  <1>1. CASE \E q \in Req : PlainAsk(q)
    <2>1. PICK q \in Req : PlainAsk(q)
      BY <1>1
    <2>2. PICK p, list : Ask(q, p, list) /\ (Harmless(list) \/ \E force \in BOOLEAN : Guarded(list, p, force))
      BY <2>1, PlainAskList
    <2>3. Harmless(list) => \A s \in Elements(list) : s.op # "off"
      BY DEF Harmless
    <2> QED BY <2>2, <2>3, AskKeepsSigned
  <1>2. CASE \E q \in Req, p \in Port, allowed \in AskedLists : AskTrunk(q, p, allowed)
    <2>1. PICK q \in Req, p \in Port, allowed \in SUBSET VLAN : AskTrunk(q, p, allowed)
      BY <1>2
    <2>2. Ask(q, p, Trunk(p, allowed))
      BY <2>1 DEF AskTrunk
    <2>3. \A s \in Elements(Trunk(p, allowed)) : s.op # "off"
      BY TrunkList DEF Harmless, Trunks
    <2> QED BY <2>2, <2>3, AskKeepsSigned
  <1>3. ASSUME UNCHANGED <<signed, manual>>, NEW a \in Actor, NEW list, Continue(a, list),
               a \in Req => (signed[a] => Spared(a)')
        PROVE  SignedInv'
    <2>1. ASSUME NEW q \in Req, signed[q]
          PROVE  Spared(q)'
      <3>1. Spared(q)
        BY <2>1 DEF SignedInv
      <3> QED BY <1>3, <2>1, <3>1, OthersSpared
    <2> QED BY <1>3, <2>1 DEF SignedInv
  <1>4. CASE Refresh
    <2>1. UNCHANGED <<signed, manual>> /\ "refresh" \in Actor /\ "refresh" \notin Req
      BY <1>4 DEF Refresh, tables, history, Actor
    <2>2. PICK list : Continue("refresh", list)
      BY <1>4, RefreshList
    <2> QED BY <1>3, <2>1, <2>2
  <1>5. CASE \E a \in Actor : ActorStep(a)
    <2>1. PICK a \in Actor : ActorStep(a)
      BY <1>5
    <2>2. UNCHANGED <<signed, manual>>
      BY <2>1 DEF ActorStep, Step, Guard, Take, Free, SwitchOff, SwitchOn, SetVlan, ReadVlanBitmaps,
                  SetVlanBitmapPort, NextPort, UpdateRow, ReadPorts, UpsertPorts, ReadNeighbours,
                  ClearLinks, InsertLink, Fails, NeighboursFail, tables, history
    <2>3. PICK list : Continue(a, list)
      BY <2>1, StepList
    <2>4. a \in Req => (signed[a] => Spared(a)')
      BY <2>1, StepSpares DEF SignedInv
    <2> QED BY <1>3, <2>2, <2>3, <2>4
  <1>6. CASE \E p \in Port : ManualLink(p)
    <2>1. PICK p \in Port : ManualLink(p)
      BY <1>6
    <2>2. /\ todo' = todo /\ signed' = [q \in Req |-> signed[q] /\ p \in manual']
          /\ manual' = IF p \in manual THEN manual \ {p} ELSE manual \cup {p}
      BY <2>1 DEF ManualLink
    <2>3. signed' \in [Req -> BOOLEAN]
      BY <2>2 DEF SignedInv
    <2>4. ASSUME NEW q \in Req, signed'[q]
          PROVE  Spared(q)'
      <3>1. signed[q] /\ p \in manual'
        BY <2>2, <2>4
      <3>2. manual \subseteq manual'
        BY <2>2, <3>1
      <3>3. Spared(q)
        BY <3>1 DEF SignedInv
      <3> QED BY <2>2, <3>2, <3>3 DEF Spared, At, Arg
    <2> QED BY <2>3, <2>4 DEF SignedInv
  <1>7. CASE UNCHANGED <<signed, manual, todo>>
    BY <1>7 DEF SignedInv, Spared, At, Arg
  <1>8. CASE OnSite
    BY <1>7, <1>8 DEF OnSite, tables
  <1>9. CASE UNCHANGED vars
    BY <1>7, <1>9 DEF vars, tables, history
  <1> QED BY <1>1, <1>2, <1>4, <1>5, <1>6, <1>8, <1>9, NextSteps

-----------------------------------------------------------------------------
(* Bitmaps. *)

WriteInv ==
    \A q \in Req : \A s \in Elements(todo[q]) : s.op = "write" => s.arg.untagged \subseteq s.arg.egress

LEMMA ReadIsSound ==
    ASSUME UntaggedIsEgress, NEW edit \in Edit
    PROVE  WriteOf(edit).untagged \subseteq WriteOf(edit).egress
  <1>1. Least(edit.left) \in VLAN
    BY LeastIsLeft
  <1> QED BY <1>1 DEF UntaggedIsEgress, WriteOf

LEMMA WriteInvHolds ==
    ASSUME ListInv, DataTypes, UntaggedIsEgress, WriteInv, [Next]_vars
    PROVE  WriteInv'
  <1>1. ASSUME NEW a \in Actor, NEW list, Continue(a, list),
               \A s \in Elements(list) : s.op = "write" /\ a \in Req => s.arg.untagged \subseteq s.arg.egress
        PROVE  WriteInv'
    <2>1. ASSUME NEW q \in Req, NEW s \in Elements(todo'[q]), s.op = "write"
          PROVE  s.arg.untagged \subseteq s.arg.egress
      <3>1. q \in Actor
        BY DEF Actor
      <3>2. CASE q = a
        BY <1>1, <2>1, <3>1, <3>2 DEF Continue, ListInv
      <3>3. CASE q # a
        <4>1. todo'[q] = todo[q]
          BY <1>1, <3>1, <3>3 DEF Continue, ListInv
        <4> QED BY <2>1, <4>1 DEF WriteInv
      <3> QED BY <3>2, <3>3
    <2> QED BY <2>1 DEF WriteInv
  <1>2. ASSUME NEW q \in Req, NEW p, NEW list, Ask(q, p, list), \A s \in Elements(list) : s.op # "write"
        PROVE  WriteInv'
    BY <1>1, <1>2 DEF Ask, Actor
  <1>3. CASE \E q \in Req : PlainAsk(q)
    <2>1. PICK q \in Req : PlainAsk(q)
      BY <1>3
    <2>2. PICK p, list : Ask(q, p, list) /\ (Harmless(list) \/ \E force \in BOOLEAN : Guarded(list, p, force))
      BY <2>1, PlainAskList
    <2>3. \A s \in Elements(list) : s.op # "write"
      BY <2>2 DEF Harmless, Guarded
    <2> QED BY <1>2, <2>2, <2>3
  <1>4. CASE \E q \in Req, p \in Port, allowed \in AskedLists : AskTrunk(q, p, allowed)
    <2>1. PICK q \in Req, p \in Port, allowed \in SUBSET VLAN : AskTrunk(q, p, allowed)
      BY <1>4
    <2>2. Ask(q, p, Trunk(p, allowed))
      BY <2>1 DEF AskTrunk
    <2>3. \A s \in Elements(Trunk(p, allowed)) : s.op # "write"
      BY TrunkList DEF Harmless, Trunks
    <2> QED BY <1>2, <2>2, <2>3
  <1>5. CASE Refresh
    <2>1. "refresh" \in Actor /\ "refresh" \notin Req
      BY DEF Actor
    <2>2. PICK list : Continue("refresh", list)
      BY <1>5, RefreshList
    <2> QED BY <1>1, <2>1, <2>2
  <1>6. CASE \E a \in Actor : ActorStep(a)
    <2>1. PICK a \in Actor : ActorStep(a)
      BY <1>6
    <2>2. PICK list : Continue(a, list) /\ Kept(a, list)
      BY <2>1, StepList
    <2>3. todo[a] # << >> /\ todo[a] \in Seq(StatementsOf(a))
      BY <2>1, StepsAreOfBusy DEF ListInv
    <2>4. Elements(Rest(a)) \subseteq Elements(todo[a])
      BY <2>3, ElementsOfTail DEF Rest
    <2>5. ASSUME NEW s \in Elements(list), s.op = "write", a \in Req
          PROVE  s.arg.untagged \subseteq s.arg.egress
      <3>1. CASE s \in Elements(Rest(a))
        BY <2>4, <2>5, <3>1 DEF WriteInv
      <3>2. CASE At(a, "vlans") /\ s \in Elements(Reads(a))
        <4>1. Arg(a) \in Edit /\ s \in {Do("write", WriteOf(Arg(a))), Do("vlans", EditAfter(Arg(a)))}
          BY <3>2, ReadsList
        <4>2. s = Do("write", WriteOf(Arg(a)))
          BY <2>5, <4>1 DEF Do
        <4>3. s.arg = WriteOf(Arg(a))
          BY <4>2 DEF Do
        <4> QED BY <4>1, <4>3, ReadIsSound
      <3> QED BY <2>2, <2>5, <3>1, <3>2 DEF Kept
    <2> QED BY <1>1, <2>2, <2>5
  <1>7. CASE UNCHANGED todo
    BY <1>7 DEF WriteInv
  <1>8. CASE \E p \in Port : ManualLink(p)
    BY <1>7, <1>8 DEF ManualLink
  <1>9. CASE OnSite
    BY <1>7, <1>9 DEF OnSite
  <1>10. CASE UNCHANGED vars
    BY <1>7, <1>10 DEF vars
  <1> QED BY <1>3, <1>4, <1>5, <1>6, <1>8, <1>9, <1>10, NextSteps

\* Who writes bitmaps.
LEMMA BitmapSteps ==
    ASSUME [Next]_vars
    PROVE  (\E a \in Actor : SetVlanBitmapPort(a)) \/ UNCHANGED <<egress, untagged>>
  <1>1. ASSUME NEW a \in Actor, ActorStep(a)
        PROVE  SetVlanBitmapPort(a) \/ UNCHANGED <<egress, untagged>>
    BY <1>1 DEF ActorStep, Step, Guard, Take, Free, SwitchOff, SwitchOn, SetVlan, ReadVlanBitmaps,
                NextPort, UpdateRow, ReadPorts, UpsertPorts, ReadNeighbours,
                ClearLinks, InsertLink, Fails, NeighboursFail, switch
  <1>2. ASSUME NEW q \in Req, NEW p, NEW list, Ask(q, p, list)
        PROVE  UNCHANGED <<egress, untagged>>
    BY <1>2 DEF Ask, switch
  <1>3. ASSUME NEW q \in Req, PlainAsk(q)
        PROVE  UNCHANGED <<egress, untagged>>
    BY <1>2, <1>3, PlainAskList
  <1>4. ASSUME NEW q \in Req, NEW p \in Port, NEW allowed \in AskedLists, AskTrunk(q, p, allowed)
        PROVE  UNCHANGED <<egress, untagged>>
    BY <1>2, <1>4 DEF AskTrunk
  <1>5. Refresh => UNCHANGED <<egress, untagged>>
    BY DEF Refresh, switch
  <1>6. \A p \in Port : ManualLink(p) => UNCHANGED <<egress, untagged>>
    BY DEF ManualLink, switch
  <1>7. OnSite => UNCHANGED <<egress, untagged>>
    BY DEF OnSite
  <1>8. UNCHANGED vars => UNCHANGED <<egress, untagged>>
    BY DEF vars, switch
  <1> QED BY <1>1, <1>3, <1>4, <1>5, <1>6, <1>7, <1>8, NextSteps

LEMMA UntaggedIsEgressHolds ==
    ASSUME ListInv, DataTypes, WriteInv, UntaggedIsEgress, [Next]_vars
    PROVE  UntaggedIsEgress'
  <1>1. CASE \E a \in Actor : SetVlanBitmapPort(a)
    <2>1. PICK a \in Actor : SetVlanBitmapPort(a)
      BY <1>1
    <2> DEFINE w == Arg(a)
    <2>2. /\ egress' = [egress EXCEPT ![w.vlan] = With(w.egress, w.port, w.member)]
          /\ untagged' = [untagged EXCEPT ![w.vlan] = w.untagged \ {w.port}]
      BY <2>1 DEF SetVlanBitmapPort
    <2>3. Head(todo[a]) \in Elements(todo[a]) /\ Head(todo[a]).op = "write" /\ a \in Req
      BY <2>1, AtHead DEF SetVlanBitmapPort, RequestOps
    <2>4. w.untagged \subseteq w.egress
      BY <2>3 DEF WriteInv, Arg
    <2> HIDE DEF w
    <2>5. w.untagged \ {w.port} \subseteq With(w.egress, w.port, w.member)
      BY <2>4 DEF With
    <2>6. ASSUME NEW v \in VLAN
          PROVE  untagged'[v] \subseteq egress'[v]
      <3>1. CASE v = w.vlan
        BY <2>2, <2>5, <3>1 DEF DataTypes
      <3>2. CASE v # w.vlan
        BY <2>2, <3>2 DEF DataTypes, UntaggedIsEgress
      <3> QED BY <3>1, <3>2
    <2> QED BY <2>6 DEF UntaggedIsEgress
  <1>2. CASE UNCHANGED <<egress, untagged>>
    BY <1>2 DEF UntaggedIsEgress
  <1> QED BY <1>1, <1>2, BitmapSteps

-----------------------------------------------------------------------------
(* A trunk edit without another beside it. *)

Bits(list) == {s \in Elements(list) : s.op \in {"vlans", "write"}}

\* What the edits asked for is what the switch has, but for the edit of p in v ...
Edited(p, v, yes) ==
    /\ wanted.egress[v] = With(egress[v], p, yes)
    /\ wanted.untagged[v] = untagged[v] \ {p}
Same(v) == wanted.egress[v] = egress[v] /\ wanted.untagged[v] = untagged[v]

\* ... which its statement is about to make.
About(s, v) == (s.op = "write" /\ s.arg.vlan = v) \/ (s.op = "vlans" /\ v \in s.arg.left)
ToEdit(s) == \A v \in s.arg.left : Edited(s.arg.port, v, Member(s.arg.allowed, v))
ToWrite(w) ==
    w.egress = egress[w.vlan] /\ w.untagged = untagged[w.vlan] /\ Edited(w.port, w.vlan, w.member)
BitsHold(list) ==
    \A s \in Bits(list) :
        /\ s.op = "vlans" => ToEdit(s)
        /\ s.op = "write" => ToWrite(s.arg) /\ \A t \in Bits(list) : t.op = "vlans" => s.arg.vlan \notin t.arg.left

Alone == \A q, r \in Req : Bits(todo[q]) # {} /\ Bits(todo[r]) # {} => q = r
Covered == \A v \in VLAN : Same(v) \/ \E q \in Req : \E s \in Bits(todo[q]) : About(s, v)

WantedType == [egress : [VLAN -> SUBSET Port], untagged : [VLAN -> SUBSET Port]]
TrunkInv ==
    /\ wanted \in WantedType /\ mixed \in BOOLEAN
    /\ ~mixed => Alone /\ Covered /\ \A q \in Req : BitsHold(todo[q])

LEMMA TrunkingIsBits ==
    ASSUME NEW S, NEW list \in Seq(S)
    PROVE  (\E i \in DOMAIN list : list[i].op \in {"vlans", "write"}) <=> Bits(list) # {}
  <1>1. DOMAIN list = 1 .. Len(list)
    BY LenProperties
  <1> QED BY <1>1 DEF Bits, Elements

LEMMA TrunkingNow ==
    ASSUME ListInv, NEW a \in Actor
    PROVE  Trunking(a) <=> Bits(todo[a]) # {}
  <1>1. todo[a] \in Seq(Statement)
    BY DEF ListInv
  <1> QED BY <1>1, TrunkingIsBits DEF Trunking

LEMMA TrunkSettles ==
    ASSUME ListInv, DataTypes, TrunkInv
    PROVE  SoloTrunkHolds
  <1> SUFFICES ASSUME ~mixed, \A q \in Req : ~Trunking(q)
               PROVE  wanted = [egress |-> egress, untagged |-> untagged]
    BY DEF SoloTrunkHolds
  <1>1. \A q \in Req : Bits(todo[q]) = {}
    BY TrunkingNow DEF Actor
  <1>2. \A v \in VLAN : Same(v)
    BY <1>1 DEF TrunkInv, Covered
  <1>3. wanted = [egress |-> wanted.egress, untagged |-> wanted.untagged]
    BY DEF TrunkInv, WantedType
  <1>4. wanted.egress \in [VLAN -> SUBSET Port] /\ wanted.untagged \in [VLAN -> SUBSET Port]
    BY DEF TrunkInv, WantedType
  <1>5. wanted.egress = egress
    <2>1. egress \in [VLAN -> SUBSET Port]
      BY DEF DataTypes
    <2>2. \A v \in VLAN : wanted.egress[v] = egress[v]
      BY <1>2 DEF Same
    <2>3. wanted.egress = [v \in VLAN |-> wanted.egress[v]] /\ egress = [v \in VLAN |-> egress[v]]
      BY <1>4, <2>1
    <2> QED BY <2>2, <2>3
  <1>6. wanted.untagged = untagged
    <2>1. untagged \in [VLAN -> SUBSET Port]
      BY DEF DataTypes
    <2>2. \A v \in VLAN : wanted.untagged[v] = untagged[v]
      BY <1>2 DEF Same
    <2>3. wanted.untagged = [v \in VLAN |-> wanted.untagged[v]] /\ untagged = [v \in VLAN |-> untagged[v]]
      BY <1>4, <2>1
    <2> QED BY <2>2, <2>3
  <1> QED BY <1>3, <1>5, <1>6

\* Steps that leave the bitmaps and the statements about them alone.
LEMMA TrunkStays ==
    ASSUME TrunkInv, UNCHANGED <<egress, untagged, wanted>>, mixed' \in BOOLEAN, mixed => mixed',
           ~mixed' => \A q \in Req : Bits(todo'[q]) = Bits(todo[q])
    PROVE  TrunkInv'
  <1> SUFFICES ASSUME ~mixed'
               PROVE  Alone' /\ Covered' /\ \A q \in Req : BitsHold(todo[q])'
    BY DEF TrunkInv
  <1>1. Alone /\ Covered /\ \A q \in Req : BitsHold(todo[q])
    BY DEF TrunkInv
  <1>2. Alone'
    BY <1>1 DEF Alone
  <1>3. Covered'
    BY <1>1 DEF Covered, Same
  <1>4. ASSUME NEW q \in Req
        PROVE  BitsHold(todo[q])'
    <2>1. Bits(todo'[q]) = Bits(todo[q]) /\ BitsHold(todo[q])
      BY <1>1
    <2> QED BY <2>1 DEF BitsHold, ToEdit, ToWrite, Edited
  <1> QED BY <1>2, <1>3, <1>4

\* A step of one actor that does so.
LEMMA OneListStays ==
    ASSUME ListInv, TrunkInv, UNCHANGED <<egress, untagged, wanted>>, mixed' \in BOOLEAN, mixed => mixed',
           NEW a \in Actor, NEW list, Continue(a, list), ~mixed' /\ a \in Req => Bits(list) = Bits(todo[a])
    PROVE  TrunkInv'
  <1>1. \A q \in Actor : todo'[q] = IF q = a THEN list ELSE todo[q]
    BY DEF Continue, ListInv
  <1>2. ~mixed' => \A q \in Req : Bits(todo'[q]) = Bits(todo[q])
    BY <1>1 DEF Actor
  <1> QED BY <1>2, TrunkStays

\* A trunk edit asked for while no other is under way: all VLANs are ahead of it.
LEMMA TrunkAsked ==
    ASSUME ListInv, DataTypes, TrunkInv, NEW q \in Req, NEW p \in Port, NEW allowed \in SUBSET VLAN,
           AskTrunk(q, p, allowed)
    PROVE  TrunkInv'
  <1> DEFINE list == Trunk(p, allowed)
  <1>1. /\ q \in Actor /\ todo[q] = << >> /\ Continue(q, list) /\ UNCHANGED <<egress, untagged>>
    BY DEF AskTrunk, Ask, Actor, switch
  <1>2. /\ list \in Seq(PortStatement)
        /\ Harmless(list) \/ (Trunks(list, p, allowed) /\ \E s \in Elements(list) : s.op = "vlans")
    BY TrunkList
  <1> HIDE DEF list
  <1>3. todo'[q] = list /\ \A r \in Req : r # q => todo'[r] = todo[r]
    BY <1>1 DEF Continue, ListInv, Actor
  <1>4. Trunking(q)' <=> Bits(list) # {}
    <2>1. Trunking(q)' <=> \E i \in DOMAIN list : list[i].op \in {"vlans", "write"}
      BY <1>3 DEF Trunking
    <2> QED BY <1>2, <2>1, TrunkingIsBits
  <1>5. Bits(todo[q]) = {}
    BY <1>1, ElementsOfEmpty DEF Bits
  <1>6. CASE Harmless(list)
    <2>1. Bits(list) = {}
      BY <1>6 DEF Harmless, Bits
    <2>2. UNCHANGED <<wanted, mixed>>
      BY <1>4, <2>1 DEF AskTrunk
    <2>3. mixed' \in BOOLEAN /\ (mixed => mixed')
      BY <2>2 DEF TrunkInv
    <2> QED BY <1>1, <1>5, <2>1, <2>2, <2>3, OneListStays
  <1>7. CASE Trunks(list, p, allowed) /\ \E s \in Elements(list) : s.op = "vlans"
    <2>1. Bits(list) # {} /\ \A s \in Bits(list) : s.op = "vlans" /\ s.arg = TrunkEdit(p, allowed)
      BY <1>7 DEF Trunks, Bits
    <2>2. /\ wanted' = [egress   |-> [v \in VLAN |-> With(wanted.egress[v], p, Member(allowed, v))],
                        untagged |-> [v \in VLAN |-> wanted.untagged[v] \ {p}]]
          /\ mixed' = (mixed \/ \E a \in Req : Trunking(a))
      BY <1>4, <2>1 DEF AskTrunk
    <2>3. \A v \in VLAN : With(wanted.egress[v], p, Member(allowed, v)) \in SUBSET Port
      BY DEF TrunkInv, WantedType, With
    <2>4. \A v \in VLAN : wanted.untagged[v] \ {p} \in SUBSET Port
      BY DEF TrunkInv, WantedType
    <2>5. wanted' \in WantedType /\ mixed' \in BOOLEAN
      BY <2>2, <2>3, <2>4 DEF WantedType
    <2>6. ASSUME ~mixed'
          PROVE  Alone' /\ Covered' /\ \A r \in Req : BitsHold(todo[r])'
      <3>1. ~mixed /\ \A r \in Req : Bits(todo[r]) = {}
        BY <2>2, <2>6, TrunkingNow DEF Actor
      <3>2. \A v \in VLAN : Same(v)
        BY <3>1 DEF TrunkInv, Covered
      <3>3. \A v \in VLAN : Edited(p, v, Member(allowed, v))'
        <4> TAKE v \in VLAN
        <4>1. /\ wanted'.egress[v] = With(wanted.egress[v], p, Member(allowed, v))
              /\ wanted'.untagged[v] = wanted.untagged[v] \ {p}
          BY <2>2
        <4>2. wanted.egress[v] = egress'[v] /\ wanted.untagged[v] = untagged'[v]
          BY <1>1, <3>2 DEF Same
        <4> QED BY <4>1, <4>2 DEF Edited
      <3>4. \A r \in Req : Bits(todo'[r]) = IF r = q THEN Bits(list) ELSE {}
        BY <1>3, <3>1
      <3>5. Alone'
        BY <3>4 DEF Alone
      <3>6. Covered'
        <4>1. PICK s \in Bits(list) : TRUE
          BY <2>1
        <4>2. \A v \in VLAN : About(s, v)
          BY <2>1 DEF About, TrunkEdit
        <4> QED BY <3>4, <4>1, <4>2 DEF Covered
      <3>7. \A s \in Bits(list) : ToEdit(s)'
        BY <2>1, <3>3 DEF ToEdit, TrunkEdit
      <3>8. ASSUME NEW r \in Req
            PROVE  BitsHold(todo[r])'
        BY <2>1, <3>4, <3>7 DEF BitsHold
      <3> QED BY <3>5, <3>6, <3>8
    <2> QED BY <2>5, <2>6 DEF TrunkInv
  <1> QED BY <1>2, <1>6, <1>7

LEMMA BitsOfReads ==
    ASSUME ListInv, DataTypes, NEW a \in Actor, At(a, "vlans")
    PROVE  /\ a \in Req /\ Arg(a) \in Edit
           /\ Bits(todo[a]) = {Head(todo[a])}
           /\ Bits(Reads(a) \o Rest(a)) =
                 {Do("write", WriteOf(Arg(a)))} \cup
                 (IF LeftOf(Arg(a)) = {} THEN {} ELSE {Do("vlans", EditAfter(Arg(a)))})
  <1>1. /\ a \in Req /\ Arg(a) \in Edit
        /\ Elements(Reads(a)) =
                 {Do("write", WriteOf(Arg(a)))} \cup
                 (IF LeftOf(Arg(a)) = {} THEN {} ELSE {Do("vlans", EditAfter(Arg(a)))})
        /\ Elements(Reads(a) \o Rest(a)) = Elements(Reads(a)) \cup Elements(Rest(a))
    BY ReadsList
  <1>2. \A s \in Elements(Rest(a)) : s.op \notin {"vlans", "write"}
    BY RestIsMild DEF Mild, Elements
  <1>3. Elements(todo[a]) = {Head(todo[a])} \cup Elements(Rest(a)) /\ Head(todo[a]).op = "vlans"
    BY AtHead
  <1>4. Bits(todo[a]) = {Head(todo[a])}
    BY <1>2, <1>3 DEF Bits
  <1>5. \A s \in Elements(Reads(a)) : s.op \in {"vlans", "write"}
    BY <1>1 DEF Do
  <1>6. Bits(Reads(a) \o Rest(a)) = Elements(Reads(a))
    BY <1>1, <1>2, <1>5 DEF Bits
  <1> QED BY <1>1, <1>4, <1>6

\* The next VLAN is read: its bitmaps are those the write will start from.
LEMMA TrunkRead ==
    ASSUME ListInv, DataTypes, TrunkInv, NEW a \in Actor, ReadVlanBitmaps(a)
    PROVE  TrunkInv'
  <1>1. PICK edit, write, vlans, v, list :
           /\ edit = Arg(a) /\ v = Least(edit.left)
           /\ write = Do("write", WriteOf(edit)) /\ vlans = Do("vlans", EditAfter(edit))
           /\ list = Reads(a) \o Rest(a)
    OBVIOUS
  <1>2. /\ At(a, "vlans") /\ Continue(a, list)
        /\ UNCHANGED <<egress, untagged, wanted, mixed>>
    BY <1>1 DEF ReadVlanBitmaps, Reads, WriteOf, LeftOf, EditAfter, Least, switch, history
  <1>3. /\ a \in Req /\ edit \in Edit /\ Bits(todo[a]) = {Head(todo[a])}
        /\ Bits(list) = {write} \cup (IF LeftOf(edit) = {} THEN {} ELSE {vlans})
        /\ Head(todo[a]).op = "vlans" /\ Head(todo[a]).arg = edit
    <2>1. /\ a \in Req /\ edit \in Edit /\ Bits(todo[a]) = {Head(todo[a])}
          /\ Bits(list) = {write} \cup (IF LeftOf(edit) = {} THEN {} ELSE {vlans})
      BY <1>1, <1>2, BitsOfReads
    <2> QED BY <1>1, <1>2, <2>1 DEF At, Arg
  <1>4. v \in edit.left /\ edit.left \subseteq VLAN /\ LeftOf(edit) = edit.left \ {v}
    BY <1>1, <1>3, LeastIsLeft DEF LeftOf
  <1>5. /\ write.op = "write" /\ write.arg.vlan = v /\ write.arg.port = edit.port
        /\ write.arg.member = Member(edit.allowed, v)
        /\ write.arg.egress = egress[v] /\ write.arg.untagged = untagged[v]
    BY <1>1 DEF Do, WriteOf
  <1>6. /\ vlans.op = "vlans" /\ vlans.arg.left = LeftOf(edit) /\ vlans.arg.port = edit.port
        /\ vlans.arg.allowed = edit.allowed
    BY <1>1, <1>3 DEF Do, EditAfter, Edit
  <1>7. \A r \in Req : todo'[r] = IF r = a THEN list ELSE todo[r]
    BY <1>2 DEF Continue, ListInv, Actor
  <1>8. ASSUME ~mixed
        PROVE  Alone' /\ Covered' /\ \A r \in Req : BitsHold(todo[r])'
    <2>1. /\ Alone /\ Covered /\ BitsHold(todo[a])
          /\ \A r \in Req : r # a => Bits(todo[r]) = {}
      BY <1>3, <1>8 DEF TrunkInv, Alone
    <2>2. \A r \in Req : Bits(todo'[r]) = IF r = a THEN Bits(list) ELSE {}
      BY <1>7, <2>1
    <2>3. Alone'
      BY <2>2 DEF Alone
    <2>4. ASSUME NEW u \in VLAN
          PROVE  Same(u)' \/ \E r \in Req : \E s \in Bits(todo'[r]) : About(s, u)
      <3>1. CASE Same(u)
        BY <1>2, <3>1 DEF Same
      <3>2. CASE ~Same(u)
        <4>1. u \in edit.left
          BY <1>3, <2>1, <3>2 DEF Covered, About
        <4>2. CASE u = v
          BY <1>3, <1>5, <2>2, <4>2 DEF About
        <4>3. CASE u # v
          <5>1. vlans \in Bits(list)
            BY <1>3, <1>4, <4>1, <4>3
          <5>2. About(vlans, u)
            BY <1>4, <1>6, <4>1, <4>3 DEF About
          <5> QED BY <1>3, <2>2, <5>1, <5>2
        <4> QED BY <4>2, <4>3
      <3> QED BY <3>1, <3>2
    <2>5. Covered'
      BY <2>4 DEF Covered
    <2>6. \A u \in edit.left : Edited(edit.port, u, Member(edit.allowed, u))
      BY <1>3, <2>1 DEF BitsHold, ToEdit
    <2>7. ToWrite(write.arg)'
      <3>1. Edited(edit.port, v, Member(edit.allowed, v))
        BY <1>4, <2>6
      <3> QED BY <1>2, <1>5, <3>1 DEF ToWrite, Edited
    <2>8. ToEdit(vlans)'
      BY <1>2, <1>4, <1>6, <2>6 DEF ToEdit, Edited
    <2>9. ASSUME NEW s \in Bits(list)
          PROVE  /\ s.op = "vlans" => ToEdit(s)'
                 /\ s.op = "write" => ToWrite(s.arg)'
                 /\ s.op = "write" => \A t \in Bits(list) : t.op = "vlans" => s.arg.vlan \notin t.arg.left
      <3>1. s = write \/ s = vlans
        BY <1>3
      <3>2. CASE s = write
        BY <1>3, <1>4, <1>5, <1>6, <2>7, <3>2
      <3>3. CASE s = vlans
        BY <1>6, <2>8, <3>3
      <3> QED BY <3>1, <3>2, <3>3
    <2>10. ASSUME NEW r \in Req
           PROVE  BitsHold(todo[r])'
      BY <2>2, <2>9 DEF BitsHold
    <2> QED BY <2>3, <2>5, <2>10
  <1> QED BY <1>2, <1>8 DEF TrunkInv

\* The bitmaps are written: the VLAN has what was asked for it.
LEMMA TrunkWritten ==
    ASSUME ListInv, DataTypes, TrunkInv, NEW a \in Actor, SetVlanBitmapPort(a)
    PROVE  TrunkInv'
  <1>1. PICK head, w, rest : head = Head(todo[a]) /\ w = Arg(a) /\ rest = Rest(a)
    OBVIOUS
  <1>2. /\ At(a, "write") /\ Continue(a, rest) /\ UNCHANGED <<wanted, mixed>>
        /\ egress' = [egress EXCEPT ![w.vlan] = With(w.egress, w.port, w.member)]
        /\ untagged' = [untagged EXCEPT ![w.vlan] = w.untagged \ {w.port}]
    BY <1>1 DEF SetVlanBitmapPort, history
  <1>3. w \in Write /\ a \in Req
    BY <1>1, <1>2, AtHead, ArgTypes DEF Arg, RequestOps
  <1>4. /\ Elements(todo[a]) = {head} \cup Elements(rest) /\ head.op = "write" /\ head.arg = w
    BY <1>1, <1>2, AtHead DEF Arg
  <1>5. \A s \in Elements(rest) : s.op # "write"
    <2>1. todo[a] \in Seq(StatementsOf(a)) /\ todo[a] # << >> /\ Shape(todo[a])
      BY <1>2 DEF ListInv, At
    <2>2. \A i \in 1 .. Len(Tail(todo[a])) : Tail(todo[a])[i].op # "write"
      BY <2>1, ShapeOfTail
    <2> QED BY <1>1, <2>2 DEF Elements, Rest
  <1>6. Bits(todo[a]) = {head} \cup Bits(rest) /\ \A s \in Bits(rest) : s.op = "vlans"
    BY <1>4, <1>5 DEF Bits
  <1>7. \A r \in Req : todo'[r] = IF r = a THEN rest ELSE todo[r]
    BY <1>2 DEF Continue, ListInv, Actor
  <1>8. /\ w.vlan \in VLAN
        /\ \A u \in VLAN : u # w.vlan => egress'[u] = egress[u] /\ untagged'[u] = untagged[u]
        /\ egress'[w.vlan] = With(w.egress, w.port, w.member) /\ untagged'[w.vlan] = w.untagged \ {w.port}
    BY <1>2, <1>3 DEF Write, DataTypes
  <1>9. ASSUME ~mixed
        PROVE  Alone' /\ Covered' /\ \A r \in Req : BitsHold(todo[r])'
    <2>1. /\ Alone /\ Covered /\ BitsHold(todo[a])
          /\ \A r \in Req : r # a => Bits(todo[r]) = {}
      BY <1>3, <1>6, <1>9 DEF TrunkInv, Alone
    <2>2. \A r \in Req : Bits(todo'[r]) = IF r = a THEN Bits(rest) ELSE {}
      BY <1>7, <2>1
    <2>3. Alone'
      BY <2>2 DEF Alone
    <2>4. /\ w.egress = egress[w.vlan] /\ w.untagged = untagged[w.vlan]
          /\ Edited(w.port, w.vlan, w.member)
          /\ \A t \in Bits(todo[a]) : t.op = "vlans" => w.vlan \notin t.arg.left
      BY <1>4, <1>6, <2>1 DEF BitsHold, ToWrite
    <2>5. ASSUME NEW u \in VLAN
          PROVE  Same(u)' \/ \E r \in Req : \E s \in Bits(todo'[r]) : About(s, u)
      <3>1. CASE u = w.vlan
        BY <1>2, <1>8, <2>4, <3>1 DEF Same, Edited
      <3>2. CASE u # w.vlan /\ Same(u)
        BY <1>2, <1>8, <3>2 DEF Same
      <3>3. CASE u # w.vlan /\ ~Same(u)
        <4>1. PICK s \in Bits(todo[a]) : About(s, u)
          BY <2>1, <3>3 DEF Covered
        <4>2. s \in Bits(rest)
          BY <1>4, <1>6, <3>3, <4>1 DEF About
        <4> QED BY <1>3, <2>2, <4>1, <4>2
      <3> QED BY <3>1, <3>2, <3>3
    <2>6. Covered'
      BY <2>5 DEF Covered
    <2>7. ASSUME NEW s \in Bits(rest)
          PROVE  ToEdit(s)'
      <3>1. s \in Bits(todo[a]) /\ s.op = "vlans"
        BY <1>6
      <3>2. ToEdit(s) /\ w.vlan \notin s.arg.left /\ s.arg.left \subseteq VLAN
        <4>1. ToEdit(s) /\ w.vlan \notin s.arg.left
          BY <2>1, <2>4, <3>1 DEF BitsHold
        <4>2. s \in Statement
          BY <3>1, ElementsAreTyped DEF Bits, ListInv
        <4>3. s.arg.left \subseteq VLAN
          BY <3>1, <4>2, ArgTypes DEF Edit
        <4> QED BY <4>1, <4>3
      <3> QED BY <1>2, <1>8, <3>2 DEF ToEdit, Edited
    <2>8. ASSUME NEW r \in Req
          PROVE  BitsHold(todo[r])'
      BY <1>6, <2>2, <2>7 DEF BitsHold
    <2> QED BY <2>3, <2>6, <2>8
  <1>10. wanted' \in WantedType /\ mixed' \in BOOLEAN
    BY <1>2 DEF TrunkInv
  <1> QED BY <1>2, <1>9, <1>10 DEF TrunkInv

LEMMA TrunkFails ==
    ASSUME ListInv, DataTypes, TrunkInv, NEW a \in Actor, Fails(a)
    PROVE  TrunkInv'
  <1>1. /\ Continue(a, Caught(todo[a])) /\ todo[a] # << >>
        /\ UNCHANGED <<egress, untagged, wanted>> /\ mixed' = (mixed \/ Trunking(a))
    BY DEF Fails, At, switch
  <1>2. mixed' \in BOOLEAN /\ (mixed => mixed')
    BY <1>1 DEF TrunkInv
  <1>3. Bits(Caught(todo[a])) = {}
    BY <1>1, CaughtIsKept DEF Bits
  <1>4. ~mixed' => Bits(todo[a]) = {}
    BY <1>1, TrunkingNow
  <1> QED BY <1>1, <1>2, <1>3, <1>4, OneListStays

\* The other steps say nothing about bitmaps, and drop nothing that does.
LEMMA OtherBits ==
    ASSUME ListInv, DataTypes, NEW a \in Actor, NEW list, Kept(a, list), Full(a, list),
           todo[a] # << >>, ~At(a, "vlans"), ~At(a, "write")
    PROVE  Bits(list) = Bits(todo[a])
  <1>1. todo[a] \in Seq(StatementsOf(a))
    BY DEF ListInv
  <1>2. Elements(todo[a]) = {Head(todo[a])} \cup Elements(Rest(a))
    BY <1>1, ElementsOfTail DEF Rest
  <1>3. Head(todo[a]).op \notin {"vlans", "write"}
    BY DEF At
  <1>4. Bits(todo[a]) = Bits(Rest(a))
    BY <1>2, <1>3 DEF Bits
  <1>5. \A s \in Bits(list) : s \in Bits(Rest(a))
    BY DEF Kept, Bits
  <1>6. CASE Elements(Rest(a)) \subseteq Elements(list)
    BY <1>4, <1>5, <1>6 DEF Bits
  <1>7. CASE At(a, "guard")
    <2>1. Bits(Rest(a)) = {}
      BY <1>7, RestIsMild DEF Mild, Elements, Bits
    <2> QED BY <1>4, <1>5, <2>1
  <1> QED BY <1>6, <1>7 DEF Full

LEMMA OtherSteps ==
    ASSUME NEW a \in Actor, ActorStep(a)
    PROVE  \/ SetVlanBitmapPort(a) \/ ReadVlanBitmaps(a) \/ Fails(a)
           \/ UNCHANGED <<egress, untagged, wanted, mixed>> /\ ~At(a, "vlans") /\ ~At(a, "write")
  <1>1. CASE Guard(a) \/ Take(a) \/ Free(a)
    BY <1>1 DEF Guard, Take, Free, At, switch, history
  <1>2. CASE SwitchOff(a) \/ SwitchOn(a) \/ SetVlan(a)
    BY <1>2 DEF SwitchOff, SwitchOn, SetVlan, At, history
  <1>3. CASE NextPort(a) \/ UpdateRow(a)
    BY <1>3 DEF NextPort, UpdateRow, At, switch, history
  <1>4. CASE ReadPorts(a) \/ UpsertPorts(a) \/ ReadNeighbours(a)
    BY <1>4 DEF ReadPorts, UpsertPorts, ReadNeighbours, At, switch, history
  <1>5. CASE ClearLinks(a) \/ InsertLink(a) \/ NeighboursFail(a)
    BY <1>5 DEF ClearLinks, InsertLink, NeighboursFail, At, switch, history
  <1> QED BY <1>1, <1>2, <1>3, <1>4, <1>5 DEF ActorStep, Step

LEMMA TrunkInvHolds ==
    ASSUME ListInv, DataTypes, TrunkInv, [Next]_vars
    PROVE  TrunkInv'
  <1>1. TrunkInv /\ UNCHANGED mixed => mixed' \in BOOLEAN /\ (mixed => mixed')
    BY DEF TrunkInv
  <1>2. CASE \E q \in Req : PlainAsk(q)
    <2>1. PICK q \in Req : PlainAsk(q)
      BY <1>2
    <2>2. PICK p, list : Ask(q, p, list) /\ (Harmless(list) \/ \E force \in BOOLEAN : Guarded(list, p, force))
      BY <2>1, PlainAskList
    <2>3. UNCHANGED <<wanted, mixed>>
      BY <2>1, PlainAskList
    <2>4. q \in Actor /\ todo[q] = << >> /\ Continue(q, list) /\ UNCHANGED <<egress, untagged>>
      BY <2>2 DEF Ask, Actor, switch
    <2>5. Bits(list) = {} /\ Bits(todo[q]) = {}
      BY <2>2, <2>4, ElementsOfEmpty DEF Harmless, Guarded, Bits
    <2> QED BY <1>1, <2>3, <2>4, <2>5, OneListStays
  <1>3. CASE \E q \in Req, p \in Port, allowed \in AskedLists : AskTrunk(q, p, allowed)
    <2>1. PICK q \in Req, p \in Port, allowed \in SUBSET VLAN : AskTrunk(q, p, allowed)
      BY <1>3
    <2> QED BY <2>1, TrunkAsked
  <1>4. CASE Refresh
    <2>1. "refresh" \in Actor /\ "refresh" \notin Req /\ UNCHANGED <<egress, untagged, wanted, mixed>>
      BY <1>4 DEF Refresh, Actor, switch, history
    <2>2. PICK list : Continue("refresh", list)
      BY <1>4, RefreshList
    <2> QED BY <1>1, <2>1, <2>2, OneListStays
  <1>5. CASE \E a \in Actor : ActorStep(a)
    <2>1. PICK a \in Actor : ActorStep(a)
      BY <1>5
    <2>2. CASE SetVlanBitmapPort(a) \/ ReadVlanBitmaps(a) \/ Fails(a)
      BY <2>2, TrunkWritten, TrunkRead, TrunkFails
    <2>3. CASE ~Fails(a) /\ UNCHANGED <<egress, untagged, wanted, mixed>>
                  /\ ~At(a, "vlans") /\ ~At(a, "write")
      <3>1. PICK list : Continue(a, list) /\ Kept(a, list) /\ Full(a, list)
        BY <2>1, <2>3, StepList
      <3>2. Bits(list) = Bits(todo[a])
        BY <2>1, <2>3, <3>1, StepsAreOfBusy, OtherBits
      <3> QED BY <1>1, <2>3, <3>1, <3>2, OneListStays
    <2> QED BY <2>1, <2>2, <2>3, OtherSteps
  <1>6. CASE UNCHANGED <<egress, untagged, wanted, mixed, todo>>
    BY <1>1, <1>6, TrunkStays
  <1>7. CASE \E p \in Port : ManualLink(p)
    BY <1>6, <1>7 DEF ManualLink, switch
  <1>8. CASE OnSite
    BY <1>6, <1>8 DEF OnSite
  <1>9. CASE UNCHANGED vars
    BY <1>6, <1>9 DEF vars, switch, history
  <1> QED BY <1>2, <1>3, <1>4, <1>5, <1>7, <1>8, <1>9, NextSteps

-----------------------------------------------------------------------------
(* The theorems. *)

IInv ==
    /\ ListInv /\ DataTypes /\ HoldInv
    /\ SignedInv /\ CutPortsReturn
    /\ UntaggedIsEgress /\ WriteInv /\ TrunkInv

LEMMA InitHolds ==
    ASSUME Init
    PROVE  IInv
  <1>1. todo = [a \in Actor |-> << >>] /\ session = None /\ off = {} /\ signed = [q \in Req |-> FALSE]
    BY DEF Init
  <1>2. \A a \in Actor : todo[a] = << >>
    BY <1>1
  <1>3. ListInv
    <2>1. \A S : << >> \in Seq(S)
      BY EmptySeq
    <2>2. Shape(<< >>)
      BY DEF Shape
    <2> QED BY <1>1, <1>2, <2>1, <2>2 DEF ListInv
  <1>4. egress = [v \in VLAN |-> Port] /\ untagged = [v \in VLAN |-> Port]
    BY DEF Init
  <1>5. DataTypes
    <2>1. <<vendor, kinds>> \in Setups
      <3>1. PICK setup \in Setups : vendor = setup[1] /\ kinds = setup[2]
        BY DEF Init
      <3>2. setup = <<setup[1], setup[2]>>
        OBVIOUS
      <3> QED BY <3>1, <3>2
    <2>2. vlan \in [Port -> VLAN \cup {Trunked}]
      <3>1. (CHOOSE v \in VLAN : TRUE) \in VLAN
        OBVIOUS
      <3> QED BY <3>1 DEF Init
    <2>3. rows \in [Port -> [admin : BOOLEAN, vlan : VLAN \cup {Trunked}]]
      BY <2>2 DEF Init, Row
    <2>4. links = {} /\ manual = {}
      BY DEF Init
    <2> QED BY <1>1, <1>4, <2>1, <2>2, <2>3, <2>4 DEF DataTypes
  <1>6. HoldInv
    BY <1>1 DEF HoldInv
  <1>7. SignedInv
    BY <1>1 DEF SignedInv
  <1>8. CutPortsReturn
    BY <1>1 DEF CutPortsReturn
  <1>9. UntaggedIsEgress
    BY <1>4 DEF UntaggedIsEgress
  <1>10. WriteInv
    BY <1>2, ElementsOfEmpty DEF WriteInv, Actor
  <1>11. TrunkInv
    <2>1. wanted = [egress |-> egress, untagged |-> untagged] /\ mixed = FALSE
      BY DEF Init
    <2>2. wanted \in WantedType
      BY <1>4, <2>1 DEF WantedType
    <2>3. \A q \in Req : Bits(todo[q]) = {}
      BY <1>2, ElementsOfEmpty DEF Bits, Actor
    <2>4. \A v \in VLAN : Same(v)
      BY <2>1 DEF Same
    <2> QED BY <2>1, <2>2, <2>3, <2>4 DEF TrunkInv, Alone, Covered, BitsHold
  <1> QED BY <1>3, <1>5, <1>6, <1>7, <1>8, <1>9, <1>10, <1>11 DEF IInv

LEMMA NextHolds ==
    ASSUME IInv, [Next]_vars
    PROVE  IInv'
  <1>1. ListInv'
    BY ListInvHolds DEF IInv
  <1>2. DataTypes'
    BY DataTypesHold DEF IInv
  <1>3. HoldInv'
    BY HoldInvHolds DEF IInv
  <1>4. SignedInv'
    BY SignedInvHolds DEF IInv
  <1>5. CutPortsReturn'
    BY CutPortsReturnHolds DEF IInv
  <1>6. UntaggedIsEgress'
    BY UntaggedIsEgressHolds DEF IInv
  <1>7. WriteInv'
    BY WriteInvHolds DEF IInv
  <1>8. TrunkInv'
    BY TrunkInvHolds DEF IInv
  <1> QED BY <1>1, <1>2, <1>3, <1>4, <1>5, <1>6, <1>7, <1>8 DEF IInv

LEMMA Invariance == Spec => []IInv
  <1>1. Init => IInv
    BY InitHolds
  <1>2. IInv /\ [Next]_vars => IInv'
    BY NextHolds
  <1> QED BY <1>1, <1>2, PTL DEF Spec

\* The type invariant; who holds the switch's session has something left to do
\* (withDeviceSession(), cisco/sshPool.ts).
THEOREM PortTypes == Spec => []TypeOK
  <1>1. IInv => TypeOK
    BY HolderIsBusy DEF IInv
  <1> QED BY <1>1, Invariance, PTL

\* The VLAN bitmaps of an Aruba switch (aruba/write.ts) stay consistent whatever requests
\* overlap, and a trunk edit with no other beside it leaves every VLAN as it asked and the
\* other ports alone.
THEOREM BitmapsStaySound == Spec => []BitmapsAreSound
  <1>1. IInv => BitmapsAreSound
    BY HolderIsBusy, TrunkSettles DEF IInv, BitmapsAreSound
  <1> QED BY <1>1, Invariance, PTL

\* assertNotUplink() (deviceComms.ts): an unforced request takes no port down that has had
\* a manual link since it was made, whatever the monitors make of topology_links.
THEOREM ManualLinksProtect == Spec => []ManualUplinkIsSpared
  <1>1. IInv => ManualUplinkIsSpared
    BY SignedSpares DEF IInv
  <1> QED BY <1>1, Invariance, PTL

\* What is off was asked to be, comes back with the request's next exchange, or is off
\* because that exchange failed (bouncePort(), poeCyclePort(), arubaBouncePort()).
THEOREM CutPortsComeBack == Spec => []CutPortsReturn
  <1>1. IInv => CutPortsReturn
    BY DEF IInv
  <1> QED BY <1>1, Invariance, PTL
=============================================================================
