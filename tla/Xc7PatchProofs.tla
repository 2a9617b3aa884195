--------------------------- MODULE Xc7PatchProofs ---------------------------
(***************************************************************************)
(* xc7patch and the debug bitstreams, for every part, every frames file,   *)
(* every set of frames in a bitstream and every size of the address        *)
(* fields.                                                                 *)
(***************************************************************************)
EXTENDS Xc7Patch, FramesProofs

(***************************************************************************)
(* The packets of a debug bitstream: four for each of its frames.          *)
(***************************************************************************)
\* The packets that a bitstream with the frames f may have.
DebugPackets(f) ==
  {Packet("IDCODE", <<Idcode>>), Packet("CMD", <<"WCFG">>)}
    \cup {Packet("FAR", <<a>>) : a \in DOMAIN f}
    \cup {Packet("FDRI", <<f[a]>>) : a \in DOMAIN f}
    \cup {Packet("LOUT", <<a>>) : a \in DOMAIN f}

\* s are the packets of the frames at the addresses in key, in that order.
DebugList(f, s, key) ==
  /\ key \in Seq(DOMAIN f)
  /\ s \in Seq(DebugPackets(f))
  /\ Len(s) = 4 * Len(key) + 1
  /\ s[1] = Packet("IDCODE", <<Idcode>>)
  /\ \A k \in 1..Len(key) : /\ s[4 * k - 2] = Packet("FAR", <<key[k]>>)
                            /\ s[4 * k - 1] = Packet("CMD", <<"WCFG">>)
                            /\ s[4 * k] = Packet("FDRI", <<f[key[k]]>>)
                            /\ s[4 * k + 1] = Packet("LOUT", <<key[k]>>)

Keys(key) == {key[k] : k \in 1..Len(key)}

\* The packets of the frames that the iterator next has passed.
DebugMade(f, s, next) ==
  \E key : /\ DebugList(f, s, key)
           /\ Keys(key) = Passed(DOMAIN f, next)

\* At first there is the packet for IDCODE alone.
LEMMA DebugStart ==
  ASSUME NEW f, DOMAIN f \subseteq Addresses
  PROVE  DebugMade(f, <<Packet("IDCODE", <<Idcode>>)>>, First(DOMAIN f))
<1> DEFINE s == <<Packet("IDCODE", <<Idcode>>)>>
           key == <<>>
<1>1. Passed(DOMAIN f, First(DOMAIN f)) = {}
  BY PassedNone
<1>2. s \in Seq(DebugPackets(f)) /\ Len(s) = 1 /\ s[1] = Packet("IDCODE", <<Idcode>>)
  BY DEF DebugPackets
<1>3. key \in Seq(DOMAIN f) /\ Len(key) = 0 /\ 1..Len(key) = {}
  OBVIOUS
<1> HIDE DEF s, key
<1>4. DebugList(f, s, key)
  BY <1>2, <1>3 DEF DebugList
<1>5. Keys(key) = Passed(DOMAIN f, First(DOMAIN f))
  BY <1>1, <1>3 DEF Keys
<1> QED
  BY <1>4, <1>5 DEF DebugMade, s

\* Four more for the next frame.
LEMMA DebugNext ==
  ASSUME NEW f, DOMAIN f \subseteq Addresses, NEW a \in DOMAIN f, NEW s,
         DebugMade(f, s, {a})
  PROVE  DebugMade(f, s \o FramePackets(a, f[a]), After(DOMAIN f, a))
<1>1. PICK key : /\ DebugList(f, s, key)
                 /\ Keys(key) = Passed(DOMAIN f, {a})
  BY DEF DebugMade
<1> DEFINE T == DebugPackets(f)
           n == Len(key)
           new == FramePackets(a, f[a])
           longer == Append(key, a)
<1>2. /\ new \in Seq(T) /\ Len(new) = 4
      /\ new[1] = Packet("FAR", <<a>>) /\ new[2] = Packet("CMD", <<"WCFG">>)
      /\ new[3] = Packet("FDRI", <<f[a]>>) /\ new[4] = Packet("LOUT", <<a>>)
  <2>1. /\ Packet("FAR", <<a>>) \in T /\ Packet("CMD", <<"WCFG">>) \in T
        /\ Packet("FDRI", <<f[a]>>) \in T /\ Packet("LOUT", <<a>>) \in T
    BY DEF DebugPackets
  <2> HIDE DEF T
  <2> QED
    BY <2>1 DEF FramePackets
<1>3. /\ key \in Seq(DOMAIN f) /\ n \in Nat
      /\ longer \in Seq(DOMAIN f) /\ Len(longer) = n + 1 /\ longer[n + 1] = a
      /\ \A k \in 1..n : longer[k] = key[k]
  <2>1. key \in Seq(DOMAIN f)
    BY <1>1 DEF DebugList
  <2> QED
    BY <2>1
<1>4. s \in Seq(T) /\ Len(s) = 4 * n + 1
  BY <1>1 DEF DebugList
<1> HIDE DEF T, new, longer, n
<1>5. /\ s \o new \in Seq(T) /\ Len(s \o new) = Len(s) + 4
      /\ \A i \in 1..Len(s) : (s \o new)[i] = s[i]
      /\ \A i \in 1..4 : (s \o new)[Len(s) + i] = new[i]
  <2>1. s \in Seq(T) /\ new \in Seq(T) /\ Len(new) = 4
    BY <1>2, <1>4
  <2>2. /\ s \o new \in Seq(T) /\ Len(s \o new) = Len(s) + 4 /\ Len(s) \in Nat
        /\ \A i \in 1..Len(s) + 4 :
             (s \o new)[i] = IF i <= Len(s) THEN s[i] ELSE new[i - Len(s)]
    <3>1. /\ s \o new \in Seq(T) /\ Len(s \o new) = Len(s) + Len(new)
          /\ \A i \in 1..Len(s) + Len(new) :
               (s \o new)[i] = IF i <= Len(s) THEN s[i] ELSE new[i - Len(s)]
      BY <2>1, ConcatProperties, Zenon
    <3>2. Len(s) \in Nat
      BY <2>1
    <3> QED
      BY <2>1, <3>1, <3>2
  <2>3. ASSUME NEW i \in 1..4 PROVE (s \o new)[Len(s) + i] = new[i]
    <3>1. Len(s) + i \in 1..Len(s) + 4 /\ ~ (Len(s) + i <= Len(s)) /\ (Len(s) + i) - Len(s) = i
      BY <2>2
    <3> QED
      BY <2>2, <3>1
  <2> QED
    BY <2>2, <2>3
<1>6. /\ Len(s \o new) = 4 * (n + 1) + 1
      /\ (s \o new)[1] = s[1]
      /\ (s \o new)[4 * (n + 1) - 2] = Packet("FAR", <<a>>)
      /\ (s \o new)[4 * (n + 1) - 1] = Packet("CMD", <<"WCFG">>)
      /\ (s \o new)[4 * (n + 1)] = Packet("FDRI", <<f[a]>>)
      /\ (s \o new)[4 * (n + 1) + 1] = Packet("LOUT", <<a>>)
  <2>1. /\ 4 * (n + 1) - 2 = Len(s) + 1 /\ 4 * (n + 1) - 1 = Len(s) + 2
        /\ 4 * (n + 1) = Len(s) + 3 /\ 4 * (n + 1) + 1 = Len(s) + 4
        /\ 1 \in 1..Len(s)
    BY <1>3, <1>4
  <2>2. 1 \in 1..4 /\ 2 \in 1..4 /\ 3 \in 1..4 /\ 4 \in 1..4
    OBVIOUS
  <2> QED
    BY <1>2, <1>5, <2>1, <2>2
<1>7. \A k \in 1..n : /\ (s \o new)[4 * k - 2] = Packet("FAR", <<key[k]>>)
                      /\ (s \o new)[4 * k - 1] = Packet("CMD", <<"WCFG">>)
                      /\ (s \o new)[4 * k] = Packet("FDRI", <<f[key[k]]>>)
                      /\ (s \o new)[4 * k + 1] = Packet("LOUT", <<key[k]>>)
  <2> SUFFICES ASSUME NEW k \in 1..n
               PROVE  /\ (s \o new)[4 * k - 2] = s[4 * k - 2]
                      /\ (s \o new)[4 * k - 1] = s[4 * k - 1]
                      /\ (s \o new)[4 * k] = s[4 * k]
                      /\ (s \o new)[4 * k + 1] = s[4 * k + 1]
    BY <1>1 DEF DebugList, n
  <2>1. /\ 4 * k - 2 \in 1..Len(s) /\ 4 * k - 1 \in 1..Len(s)
        /\ 4 * k \in 1..Len(s) /\ 4 * k + 1 \in 1..Len(s)
    BY <1>3, <1>4
  <2> QED
    BY <1>5, <2>1
<1>8. DebugList(f, s \o new, longer)
  <2> SUFFICES ASSUME NEW k \in 1..(n + 1)
               PROVE  /\ (s \o new)[4 * k - 2] = Packet("FAR", <<longer[k]>>)
                      /\ (s \o new)[4 * k - 1] = Packet("CMD", <<"WCFG">>)
                      /\ (s \o new)[4 * k] = Packet("FDRI", <<f[longer[k]]>>)
                      /\ (s \o new)[4 * k + 1] = Packet("LOUT", <<longer[k]>>)
    <3>1. s[1] = Packet("IDCODE", <<Idcode>>)
      BY <1>1 DEF DebugList
    <3> QED
      BY <1>3, <1>5, <1>6, <3>1 DEF DebugList, T
  <2>1. CASE k = n + 1
    BY <1>3, <1>6, <2>1
  <2>2. CASE k \in 1..n
    BY <1>3, <1>7, <2>2
  <2>3. k = n + 1 \/ k \in 1..n
    BY <1>3
  <2> QED
    BY <2>1, <2>2, <2>3
<1>9. Keys(longer) = Passed(DOMAIN f, After(DOMAIN f, a))
  <2>1. {longer[k] : k \in 1..(n + 1)} = {key[k] : k \in 1..n} \cup {a}
    <3>1. 1..(n + 1) = (1..n) \cup {n + 1}
      BY <1>3
    <3> QED
      BY <1>3, <3>1
  <2>2. {key[k] : k \in 1..n} = Passed(DOMAIN f, {a})
    BY <1>1 DEF n, Keys
  <2>3. Passed(DOMAIN f, After(DOMAIN f, a)) = Passed(DOMAIN f, {a}) \cup {a}
    BY PassedNext
  <2> QED
    BY <1>3, <2>1, <2>2, <2>3 DEF Keys
<1> QED
  BY <1>8, <1>9 DEF DebugMade, new

\* The packet in each place behind the first.
LEMMA FourEach ==
  ASSUME NEW n \in Nat, NEW i \in 2..(4 * n + 1)
  PROVE  \E k \in 1..n : i \in {4 * k - 2, 4 * k - 1, 4 * k, 4 * k + 1}
<1> DEFINE k == (i + 2) \div 4
<1>1. k \in Int /\ 4 * k <= i + 2 /\ i + 2 < 4 * k + 4
  OBVIOUS
<1> HIDE DEF k
<1>2. k \in 1..n /\ i \in {4 * k - 2, 4 * k - 1, 4 * k, 4 * k + 1}
  BY <1>1
<1> QED
  BY <1>2

\* The packet at each place, its register and its data.
LEMMA DebugPlaces ==
  ASSUME NEW f, NEW s, NEW key, DebugList(f, s, key)
  PROVE  /\ Len(key) \in Nat /\ Len(s) = 4 * Len(key) + 1
         /\ s[1].opcode = "Write" /\ s[1].address = "IDCODE" /\ s[1].data = <<Idcode>>
         /\ \A k \in 1..Len(key) :
              /\ key[k] \in DOMAIN f
              /\ s[4 * k - 2].opcode = "Write" /\ s[4 * k - 2].address = "FAR"
              /\ s[4 * k - 2].data = <<key[k]>>
              /\ s[4 * k - 1].opcode = "Write" /\ s[4 * k - 1].address = "CMD"
              /\ s[4 * k - 1].data = <<"WCFG">>
              /\ s[4 * k].opcode = "Write" /\ s[4 * k].address = "FDRI"
              /\ s[4 * k].data = <<f[key[k]]>>
              /\ s[4 * k + 1].opcode = "Write" /\ s[4 * k + 1].address = "LOUT"
              /\ s[4 * k + 1].data = <<key[k]>>
<1>1. /\ key \in Seq(DOMAIN f) /\ Len(s) = 4 * Len(key) + 1
      /\ s[1] = Packet("IDCODE", <<Idcode>>)
  BY DEF DebugList
<1>2. ASSUME NEW k \in 1..Len(key)
      PROVE  /\ s[4 * k - 2] = Packet("FAR", <<key[k]>>)
             /\ s[4 * k - 1] = Packet("CMD", <<"WCFG">>)
             /\ s[4 * k] = Packet("FDRI", <<f[key[k]]>>)
             /\ s[4 * k + 1] = Packet("LOUT", <<key[k]>>)
             /\ key[k] \in DOMAIN f
  BY <1>1 DEF DebugList
<1>3. \A a, d : /\ Packet(a, d).opcode = "Write" /\ Packet(a, d).address = a
                /\ Packet(a, d).data = d
  BY DEF Packet
<1>4. Len(key) \in Nat
  BY <1>1
<1>5. ASSUME NEW k \in 1..Len(key)
      PROVE  /\ s[4 * k - 2].opcode = "Write" /\ s[4 * k - 2].address = "FAR"
             /\ s[4 * k - 2].data = <<key[k]>>
             /\ s[4 * k - 1].opcode = "Write" /\ s[4 * k - 1].address = "CMD"
             /\ s[4 * k - 1].data = <<"WCFG">>
  <2>1. s[4 * k - 2] = Packet("FAR", <<key[k]>>) /\ s[4 * k - 1] = Packet("CMD", <<"WCFG">>)
    BY <1>2
  <2>2. /\ s[4 * k - 2].opcode = "Write" /\ s[4 * k - 2].address = "FAR"
        /\ s[4 * k - 2].data = <<key[k]>>
    BY <1>3, <2>1
  <2>3. /\ s[4 * k - 1].opcode = "Write" /\ s[4 * k - 1].address = "CMD"
        /\ s[4 * k - 1].data = <<"WCFG">>
    BY <1>3, <2>1
  <2> QED
    BY <2>2, <2>3
<1>6. ASSUME NEW k \in 1..Len(key)
      PROVE  /\ s[4 * k].opcode = "Write" /\ s[4 * k].address = "FDRI"
             /\ s[4 * k].data = <<f[key[k]]>>
             /\ s[4 * k + 1].opcode = "Write" /\ s[4 * k + 1].address = "LOUT"
             /\ s[4 * k + 1].data = <<key[k]>>
  <2>1. s[4 * k] = Packet("FDRI", <<f[key[k]]>>) /\ s[4 * k + 1] = Packet("LOUT", <<key[k]>>)
    BY <1>2
  <2>2. s[4 * k].opcode = "Write" /\ s[4 * k].address = "FDRI" /\ s[4 * k].data = <<f[key[k]]>>
    BY <1>3, <2>1
  <2>3. /\ s[4 * k + 1].opcode = "Write" /\ s[4 * k + 1].address = "LOUT"
        /\ s[4 * k + 1].data = <<key[k]>>
    BY <1>3, <2>1
  <2> QED
    BY <2>2, <2>3
<1>7. s[1].opcode = "Write" /\ s[1].address = "IDCODE" /\ s[1].data = <<Idcode>>
  BY <1>1, <1>3
<1> QED
  BY <1>1, <1>2, <1>4, <1>5, <1>6, <1>7, Zenon

\* gen_part_base_yaml finds the addresses of all frames, and no others.
LEMMA LoutsAreKeys ==
  ASSUME NEW f, NEW s, NEW key, DebugList(f, s, key)
  PROVE  Louts(s) = Keys(key)
<1> DEFINE n == Len(key)
           found == {j \in DOMAIN s :
                       /\ s[j].address = "LOUT" /\ Len(s[j].data) = 1
                       /\ \E g \in 1 .. (j - 1) :
                            /\ s[g].address = "FDRI"
                            /\ \A k \in (g + 1) .. (j - 1) : s[k].address # "LOUT"}
<1>1. n \in Nat /\ Len(s) = 4 * n + 1 /\ DOMAIN s = 1..(4 * n + 1)
  BY DebugPlaces DEF DebugList
<1>2. /\ s[1].address = "IDCODE"
      /\ \A k \in 1..n : /\ s[4 * k - 2].address = "FAR" /\ s[4 * k - 1].address = "CMD"
                         /\ s[4 * k].address = "FDRI" /\ s[4 * k + 1].address = "LOUT"
                         /\ s[4 * k + 1].data = <<key[k]>>
  BY DebugPlaces
<1> HIDE DEF n
<1>3. ASSUME NEW j \in found PROVE \E k \in 1..n : j = 4 * k + 1
  <2>1. j \in 1..(4 * n + 1) /\ s[j].address = "LOUT"
    BY <1>1, <1>3
  <2>2. j \in 2..(4 * n + 1)
    BY <1>1, <1>2, <2>1
  <2>3. PICK k \in 1..n : j \in {4 * k - 2, 4 * k - 1, 4 * k, 4 * k + 1}
    BY <1>1, <2>2, FourEach
  <2>4. s[j].address \notin {"FAR", "CMD", "FDRI"}
    BY <2>1
  <2> QED
    BY <1>2, <2>3, <2>4
<1>4. ASSUME NEW k \in 1..n PROVE 4 * k + 1 \in found
  <2>1. 4 * k + 1 \in DOMAIN s /\ 4 * k \in 1..((4 * k + 1) - 1)
        /\ (4 * k + 1)..((4 * k + 1) - 1) = {}
    BY <1>1
  <2>2. Len(s[4 * k + 1].data) = 1
    <3>1. s[4 * k + 1].data = <<key[k]>> /\ Len(<<key[k]>>) = 1
      BY <1>2
    <3> QED
      BY <3>1
  <2> QED
    BY <1>2, <2>1, <2>2
<1>5. \A k \in 1..n : s[4 * k + 1].data[1] = key[k]
  BY <1>2
<1>6. Louts(s) = {s[j].data[1] : j \in found}
  BY DEF Louts
<1> HIDE DEF found
<1>7. {s[j].data[1] : j \in found} = {key[k] : k \in 1..n}
  BY <1>3, <1>4, <1>5
<1> QED
  BY <1>6, <1>7 DEF n, Keys

(***************************************************************************)
(* InitWithPackets on a debug bitstream.                                   *)
(***************************************************************************)
\* The frames whose data it has taken.
Taken(key) ==
  {k \in 1..Len(key) : 4 * k < pos \/ (4 * k = pos /\ fdri /\ ii > 0)}

\* It takes each frame for the address written just before.
DebugRead(f, key) ==
  /\ DebugList(f, packets, key)
  /\ pos \in 1..(4 * Len(key) + 2) /\ ii \in Nat
  /\ fdri => \E k \in 1..Len(key) : pos = 4 * k
  /\ \A k \in 1..Len(key) :
       /\ pos \in {4 * k - 1, 4 * k} => far = key[k]
       /\ pos = 4 * k /\ ~ fdri => start_new_write
       /\ pos = 4 * k /\ fdri /\ ii = 0 => current_frame_address = key[k]
  /\ read = [a \in {key[k] : k \in Taken(key)} |-> f[a]]
  /\ result = "some" => pos = 4 * Len(key) + 2

\* Where it begins.
LEMMA DebugReadStart ==
  ASSUME NEW f, NEW key, DebugList(f, packets', key), ReaderInit'
  PROVE  DebugRead(f, key)'
<1>1. Len(key) \in Nat
  BY DebugPlaces
<1>2. pos' = 1 /\ ~ fdri' /\ ii' = 0 /\ result' = "none" /\ read' = <<>>
  BY DEF ReaderInit
<1>3. Taken(key)' = {}
  BY <1>1, <1>2 DEF Taken
<1>4. \A k \in 1..Len(key) : pos' \notin {4 * k - 1, 4 * k}
  BY <1>1, <1>2
<1>5. pos' \in 1..(4 * Len(key) + 2) /\ ii' \in Nat
  BY <1>1, <1>2
<1>6. read' = [a \in {key[k] : k \in Taken(key)'} |-> f[a]]
  BY <1>2, <1>3
<1> QED
  BY <1>2, <1>3, <1>4, <1>5, <1>6 DEF DebugRead

\* It knows it after every step.
LEMMA DebugReadStep ==
  ASSUME NEW f, DOMAIN f \subseteq Addresses, NEW key, DebugRead(f, key), ReaderNext,
         part \in Parts
  PROVE  DebugRead(f, key)'
<1> DEFINE n == Len(key)
<1>1. /\ DebugList(f, packets, key) /\ pos \in 1..(4 * n + 2) /\ ii \in Nat
      /\ n \in Nat /\ Len(packets) = 4 * n + 1
  BY DebugPlaces DEF DebugRead
<1>2. /\ packets[1].opcode = "Write" /\ packets[1].address = "IDCODE"
      /\ packets[1].data = <<Idcode>>
  BY <1>1, DebugPlaces
<1>3. ASSUME NEW k \in 1..n
      PROVE  /\ packets[4 * k - 2].opcode = "Write" /\ packets[4 * k - 2].address = "FAR"
             /\ packets[4 * k - 2].data = <<key[k]>>
             /\ packets[4 * k - 1].opcode = "Write" /\ packets[4 * k - 1].address = "CMD"
             /\ packets[4 * k - 1].data = <<"WCFG">>
             /\ packets[4 * k].opcode = "Write" /\ packets[4 * k].address = "FDRI"
             /\ packets[4 * k].data = <<f[key[k]]>>
             /\ packets[4 * k + 1].opcode = "Write" /\ packets[4 * k + 1].address = "LOUT"
             /\ packets[4 * k + 1].data = <<key[k]>>
             /\ key[k] \in DOMAIN f
  <2>1. DebugList(f, packets, key) /\ k \in 1..Len(key)
    BY <1>1
  <2>2. /\ packets[4 * k - 2].opcode = "Write" /\ packets[4 * k - 2].address = "FAR"
        /\ packets[4 * k - 2].data = <<key[k]>>
        /\ packets[4 * k - 1].opcode = "Write" /\ packets[4 * k - 1].address = "CMD"
        /\ packets[4 * k - 1].data = <<"WCFG">>
    BY <2>1, DebugPlaces
  <2>3. /\ packets[4 * k].opcode = "Write" /\ packets[4 * k].address = "FDRI"
        /\ packets[4 * k].data = <<f[key[k]]>>
        /\ packets[4 * k + 1].opcode = "Write" /\ packets[4 * k + 1].address = "LOUT"
        /\ packets[4 * k + 1].data = <<key[k]>>
        /\ key[k] \in DOMAIN f
    BY <2>1, DebugPlaces
  <2> QED
    BY <2>2, <2>3
\* The place of a packet tells its register.
<1>4. ASSUME pos <= 4 * n + 1
      PROVE  \/ pos = 1
             \/ \E k \in 1..n : pos = 4 * k - 2
             \/ \E k \in 1..n : pos = 4 * k - 1
             \/ \E k \in 1..n : pos = 4 * k
             \/ \E k \in 1..n : pos = 4 * k + 1
  <2>1. CASE pos = 1
    BY <2>1
  <2>2. CASE pos # 1
    <3>1. pos \in 2..(4 * n + 1)
      BY <1>1, <1>4, <2>2
    <3> QED
      BY <1>1, <3>1, FourEach
  <2> QED
    BY <2>1, <2>2
<1>5. \A k, j \in 1..n : /\ 4 * k - 2 # 4 * j - 1 /\ 4 * k - 2 # 4 * j /\ 4 * k - 1 # 4 * j
                         /\ 4 * k + 1 # 4 * j /\ 4 * k + 1 # 4 * j - 1 /\ 4 * k + 1 # 4 * j - 2
                         /\ 4 * k = 4 * j => k = j
                         /\ 4 * k - 1 = 4 * j - 1 => k = j
                         /\ 4 * k - 2 = 4 * j - 2 => k = j
                         /\ 4 * k - 2 # 1 /\ 4 * k - 1 # 1 /\ 4 * k # 1
  BY <1>1
<1> HIDE DEF n
\* Packets other than those of FDRI move on to the next.
<1>6. ASSUME packets' = packets, UNCHANGED <<current_frame_address, fdri, ii, read, result>>,
             pos <= 4 * n + 1, pos' = pos + 1, \A k \in 1..n : pos # 4 * k,
             \A k \in 1..n : pos = 4 * k - 2 => far' = key[k],
             \A k \in 1..n : pos = 4 * k - 1 => far' = far /\ start_new_write'
      PROVE  DebugRead(f, key)'
  <2>1. ~ fdri /\ ~ fdri'
    BY <1>6 DEF DebugRead, n
  <2>2. pos' \in 1..(4 * n + 2) /\ ii' \in Nat /\ result' # "some"
    BY <1>1, <1>6 DEF DebugRead, n
  <2>3. ASSUME NEW k \in 1..n
        PROVE  /\ pos' \in {4 * k - 1, 4 * k} => far' = key[k]
               /\ pos' = 4 * k => start_new_write'
    <3>1. CASE pos' = 4 * k - 1
      <4>1. pos = 4 * k - 2
        BY <1>1, <1>6, <3>1
      <4> QED
        BY <1>1, <1>6, <3>1, <4>1
    <3>2. CASE pos' = 4 * k
      <4>1. pos = 4 * k - 1
        BY <1>1, <1>6, <3>2
      <4>2. far = key[k]
        BY <4>1 DEF DebugRead, n
      <4> QED
        BY <1>6, <4>1, <4>2
    <3> QED
      BY <3>1, <3>2
  <2>4. Taken(key)' = Taken(key)
    <3>1. \A k \in 1..n : 4 * k < pos' <=> 4 * k < pos
      BY <1>1, <1>6
    <3> QED
      BY <2>1, <3>1 DEF Taken, n
  <2>5. read' = [a \in {key[k] : k \in Taken(key)'} |-> f[a]]
    BY <1>6, <2>4 DEF DebugRead
  <2>7. DebugList(f, packets', key)
    BY <1>1, <1>6
  <2> QED
    BY <2>1, <2>2, <2>3, <2>5, <2>7 DEF DebugRead, n
<1>7. CASE Skip
  <2>1. \E k \in 1..n : pos = 4 * k + 1
    <3>1. /\ pos <= 4 * n + 1
          /\ \/ packets[pos].opcode # "Write"
             \/ packets[pos].data = <<>> /\ packets[pos].address # "FDRI"
             \/ packets[pos].address \notin {"MASK", "CTL1", "CMD", "IDCODE", "FAR", "FDRI"}
      BY <1>1, <1>7 DEF Skip
    <3>2. pos # 1
      <4>1. packets[1].data # <<>>
        BY <1>2
      <4> QED
        BY <1>2, <3>1, <4>1
    <3>3. ASSUME NEW k \in 1..n PROVE pos # 4 * k - 2 /\ pos # 4 * k - 1 /\ pos # 4 * k
      <4>1. packets[4 * k - 2].data # <<>> /\ packets[4 * k - 1].data # <<>>
        BY <1>3
      <4>2. /\ packets[4 * k - 2].opcode = "Write" /\ packets[4 * k - 2].address = "FAR"
            /\ packets[4 * k - 1].opcode = "Write" /\ packets[4 * k - 1].address = "CMD"
            /\ packets[4 * k].opcode = "Write" /\ packets[4 * k].address = "FDRI"
        BY <1>3
      <4> QED
        BY <3>1, <4>1, <4>2
    <3> QED
      BY <1>4, <3>1, <3>2, <3>3
  <2>2. \A k \in 1..n : pos # 4 * k - 2 /\ pos # 4 * k - 1 /\ pos # 4 * k
    BY <1>5, <2>1
  <2>3. /\ packets' = packets /\ UNCHANGED <<current_frame_address, fdri, ii, read, result>>
        /\ pos <= 4 * n + 1 /\ pos' = pos + 1
    BY <1>1, <1>7 DEF Skip, writing
  <2> QED
    BY <1>6, <2>2, <2>3
<1>8. CASE WriteMask \/ WriteCtl1
  <2>1. pos <= 4 * n + 1 /\ packets[pos].address \in {"MASK", "CTL1"}
    BY <1>1, <1>8 DEF WriteMask, WriteCtl1, At
  <2>2. pos # 1 /\ \A k \in 1..n : pos # 4 * k - 2 /\ pos # 4 * k - 1 /\ pos # 4 * k
                                 /\ pos # 4 * k + 1
    BY <1>2, <1>3, <2>1
  <2> QED
    BY <1>4, <2>1, <2>2
<1>9. CASE WriteCmd
  <2>1. pos <= 4 * n + 1 /\ packets[pos].address = "CMD"
    BY <1>1, <1>9 DEF WriteCmd, At
  <2>2. pos # 1 /\ \A k \in 1..n : pos # 4 * k - 2 /\ pos # 4 * k /\ pos # 4 * k + 1
    BY <1>2, <1>3, <2>1
  <2>3. PICK k \in 1..n : pos = 4 * k - 1
    BY <1>4, <2>1, <2>2
  <2>4. Word = "WCFG"
    BY <1>3, <2>3 DEF Word
  <2>5. /\ packets' = packets /\ UNCHANGED <<current_frame_address, fdri, ii, read, result>>
        /\ pos' = pos + 1 /\ far' = far /\ start_new_write'
    BY <1>9, <2>4 DEF WriteCmd
  <2> QED
    BY <1>6, <2>1, <2>2, <2>5
<1>10. CASE WriteIdcode
  <2>1. pos <= 4 * n + 1 /\ packets[pos].address = "IDCODE"
    BY <1>1, <1>10 DEF WriteIdcode, At
  <2>2. \A k \in 1..n : pos # 4 * k - 2 /\ pos # 4 * k - 1 /\ pos # 4 * k /\ pos # 4 * k + 1
    BY <1>3, <2>1
  <2>3. Word = Idcode
    BY <1>2, <1>4, <2>1, <2>2 DEF Word
  <2>4. /\ packets' = packets /\ UNCHANGED <<current_frame_address, fdri, ii, read, result>>
        /\ pos' = pos + 1
    BY <1>10, <2>3 DEF WriteIdcode, writing
  <2> QED
    BY <1>6, <2>1, <2>2, <2>4
<1>11. CASE WriteFar
  <2>1. pos <= 4 * n + 1 /\ packets[pos].address = "FAR"
    BY <1>1, <1>11 DEF WriteFar, At
  <2>2. pos # 1 /\ \A k \in 1..n : pos # 4 * k - 1 /\ pos # 4 * k /\ pos # 4 * k + 1
    BY <1>2, <1>3, <2>1
  <2>3. \A k \in 1..n : pos = 4 * k - 2 => Word = key[k]
    BY <1>3 DEF Word
  <2>4. /\ packets' = packets /\ UNCHANGED <<current_frame_address, fdri, ii, read, result>>
        /\ pos' = pos + 1 /\ far' = Word
    BY <1>11 DEF WriteFar
  <2> QED
    BY <1>6, <2>1, <2>2, <2>3, <2>4
\* The data of a packet.
<1>12. CASE StartFdri
  <2>1. pos <= 4 * n + 1 /\ packets[pos].address = "FDRI" /\ ~ fdri
    BY <1>1, <1>12 DEF StartFdri
  <2>2. pos # 1 /\ \A k \in 1..n : pos # 4 * k - 2 /\ pos # 4 * k - 1 /\ pos # 4 * k + 1
    BY <1>2, <1>3, <2>1
  <2>3. PICK k \in 1..n : pos = 4 * k
    BY <1>4, <2>1, <2>2
  <2>4. far = key[k] /\ start_new_write
    BY <2>1, <2>3 DEF DebugRead, n
  <2>5. /\ packets' = packets /\ pos' = pos /\ fdri' /\ ii' = 0
        /\ current_frame_address' = key[k] /\ far' = key[k]
        /\ UNCHANGED <<read, result>>
    BY <1>12, <2>4 DEF StartFdri, registers
  <2>6. Taken(key)' = Taken(key)
    BY <2>1, <2>5 DEF Taken
  <2>7. read' = [a \in {key[j] : j \in Taken(key)'} |-> f[a]]
    BY <2>5, <2>6 DEF DebugRead
  <2>9. DebugList(f, packets', key) /\ pos' \in 1..(4 * n + 2) /\ ii' \in Nat
    BY <1>1, <2>5
  <2>10. result' # "some"
    BY <1>1, <2>1, <2>5 DEF DebugRead, n
  <2>11. \A j \in 1..n : /\ pos' \in {4 * j - 1, 4 * j} => far' = key[j]
                         /\ pos' = 4 * j => current_frame_address' = key[j]
    BY <1>5, <2>3, <2>5
  <2>12. \E j \in 1..n : pos' = 4 * j
    BY <2>3, <2>5
  <2> QED
    BY <2>5, <2>7, <2>9, <2>10, <2>11, <2>12 DEF DebugRead, n
<1>13. CASE FdriFrame
  <2>1. fdri /\ ii < Len(packets[pos].data)
    BY <1>13 DEF FdriFrame
  <2>2. PICK k \in 1..n : pos = 4 * k
    BY <2>1 DEF DebugRead, n
  <2>3. packets[pos].data = <<f[key[k]]>>
    BY <1>3, <2>2
  <2>4. ii = 0
    BY <1>1, <2>1, <2>3
  <2>5. current_frame_address = key[k] /\ key[k] \in Addresses
    BY <1>3, <2>1, <2>2, <2>4 DEF DebugRead, n
  <2>6. read' = [a \in DOMAIN read \cup {key[k]} |->
                   IF a = key[k] THEN f[key[k]] ELSE read[a]]
    BY <1>13, <2>3, <2>4, <2>5 DEF FdriFrame
  <2>7. /\ packets' = packets /\ far' = far /\ result' = result
        /\ \/ ~ fdri' /\ pos' = pos + 1 /\ ii' = ii
           \/ fdri' /\ pos' = pos /\ ii' = ii + 1 + Pad(part, key[k])
    BY <1>13, <2>1, <2>5 DEF FdriFrame, registers, Pad
  <2>8. Pad(part, key[k]) \in Nat
    BY DEF Pad
  <2>9. /\ ii' \in Nat /\ pos' \in 1..(4 * n + 2) /\ (fdri' => ii' > 0)
        /\ pos' \in {4 * k, 4 * k + 1} /\ (~ fdri' => pos' = 4 * k + 1)
        /\ (fdri' => pos' = 4 * k)
    BY <1>1, <2>2, <2>4, <2>7, <2>8
  <2>10. Taken(key) = {j \in 1..n : j < k}
    <3>1. \A j \in 1..n : 4 * j < pos <=> j < k
      BY <1>1, <2>2
    <3> QED
      BY <2>4, <3>1 DEF Taken, n
  <2>11. Taken(key)' = {j \in 1..n : j < k} \cup {k}
    <3>1. \A j \in 1..n : (4 * j < pos' \/ (4 * j = pos' /\ fdri' /\ ii' > 0)) <=> (j < k \/ j = k)
      BY <1>1, <2>9
    <3> QED
      BY <3>1 DEF Taken, n
  <2>12. read' = [a \in {key[j] : j \in Taken(key)'} |-> f[a]]
    <3>1. read = [a \in {key[j] : j \in Taken(key)} |-> f[a]]
      BY DEF DebugRead
    <3>2. {key[j] : j \in Taken(key)'} = {key[j] : j \in Taken(key)} \cup {key[k]}
      BY <2>10, <2>11
    <3> QED
      BY <2>6, <3>1, <3>2
  <2>14. result' # "some"
    BY <1>1, <2>2, <2>7 DEF DebugRead, n
  <2>15. \A j \in 1..n : /\ pos' \in {4 * j - 1, 4 * j} => j = k /\ fdri' /\ ii' > 0 /\ far' = key[j]
    <3>1. far = key[k]
      BY <2>2 DEF DebugRead, n
    <3> QED
      BY <1>1, <1>5, <2>7, <2>9, <3>1
  <2>16. DebugList(f, packets', key)
    BY <1>1, <2>7
  <2>17. /\ fdri' => \E j \in 1..n : pos' = 4 * j
         /\ \A j \in 1..n :
              /\ pos' \in {4 * j - 1, 4 * j} => far' = key[j]
              /\ pos' = 4 * j /\ ~ fdri' => start_new_write'
              /\ pos' = 4 * j /\ fdri' /\ ii' = 0 => current_frame_address' = key[j]
    BY <2>9, <2>15
  <2> QED
    BY <2>9, <2>12, <2>14, <2>16, <2>17 DEF DebugRead, n
<1>14. CASE EndFdri
  <2>1. /\ fdri /\ ii >= Len(packets[pos].data) /\ ~ fdri' /\ pos' = pos + 1
        /\ packets' = packets /\ UNCHANGED <<ii, read, result>>
    BY <1>14 DEF EndFdri
  <2>2. PICK k \in 1..n : pos = 4 * k
    BY <2>1 DEF DebugRead, n
  <2>3. packets[pos].data = <<f[key[k]]>>
    BY <1>3, <2>2
  <2>4. ii > 0
    BY <1>1, <2>1, <2>3
  <2>5. Taken(key)' = Taken(key)
    <3>1. \A j \in 1..n : 4 * j < pos' <=> (4 * j < pos \/ 4 * j = pos)
      BY <1>1, <2>1
    <3> QED
      BY <2>1, <2>4, <3>1 DEF Taken, n
  <2>6. read' = [a \in {key[j] : j \in Taken(key)'} |-> f[a]]
    BY <2>1, <2>5 DEF DebugRead
  <2>7. \A j \in 1..n : pos' # 4 * j - 1 /\ pos' # 4 * j
    BY <1>1, <2>1, <2>2
  <2>8. /\ DebugList(f, packets', key) /\ pos' \in 1..(4 * n + 2) /\ ii' \in Nat
        /\ result' # "some"
    BY <1>1, <2>1, <2>2 DEF DebugRead, n
  <2> QED
    BY <2>1, <2>6, <2>7, <2>8 DEF DebugRead, n
<1>15. CASE Return
  <2>1. /\ pos = 4 * n + 2 /\ packets' = packets /\ pos' = pos
        /\ UNCHANGED <<ii, fdri, read, far, start_new_write, current_frame_address>>
    BY <1>1, <1>15 DEF Return, registers, writing
  <2>2. Taken(key)' = Taken(key)
    BY <2>1 DEF Taken
  <2>3. read' = [a \in {key[j] : j \in Taken(key)'} |-> f[a]]
    BY <2>1, <2>2 DEF DebugRead
  <2>4. \A j \in 1..n : pos # 4 * j - 1 /\ pos # 4 * j
    BY <1>1, <2>1
  <2>5. ~ fdri
    BY <2>4 DEF DebugRead, n
  <2> QED
    BY <1>1, <2>1, <2>3, <2>4, <2>5 DEF DebugRead, n
<1> QED
  BY <1>7, <1>8, <1>9, <1>10, <1>11, <1>12, <1>13, <1>14, <1>15 DEF ReaderNext

(***************************************************************************)
(* xc7patch.                                                               *)
(***************************************************************************)
\* The part and the frames of xc7frames2bit, in whatever stage.
Walked ==
  /\ TypeOK /\ WalkStandsOnPart /\ OnlyMissingAdded /\ NoFrameMissing
  /\ pc # "fill" => current = {}

\* A debug bitstream is being made, or read back.
DebugInv ==
  /\ pc \in {"debug", "read"} /\ packet_data = <<>>
  /\ DOMAIN base \subseteq Addresses /\ base = [a \in DOMAIN base |-> base[a]]
  /\ pc = "debug" => /\ ReaderInit
                     /\ frame \subseteq DOMAIN base
                     /\ DebugMade(base, packets, frame)
  /\ pc = "read" => \E key : /\ DebugRead(base, key)
                             /\ Keys(key) = DOMAIN base

\* The frames of the bitstream and of the frames file are being written, or
\* read back.
PatchedInv ==
  /\ pc \in {"copy", "read"} /\ packet_data = <<>>
  /\ DOMAIN base \subseteq Addresses
  /\ patched = [a \in DOMAIN base |-> IF a \in delta THEN NewData(a) ELSE base[a]]
  /\ patch_frame \subseteq DOMAIN base
  /\ pc = "copy" => ReaderInit /\ Copying(part, patched, patch_data, patch_frame)
  /\ pc = "read" => PackageRead(patched, patch_data)

PatchInv ==
  /\ Walked
  /\ stage \in {"make", "patch", "failed"}
  /\ stage = "make" => patch_data = <<>> /\ ((RowInv /\ base = <<>>) \/ DebugInv)
  /\ stage = "patch" => PatchedInv
  /\ stage = "failed" => packet_data = <<>> /\ pc = "read"

\* The operators of the instance P are those of Frames2Bit, whose constants it
\* leaves as they are.
LEMMA SameNext ==
  \A p, a : P!GetNextFrameAddress(p, a) = GetNextFrameAddress(p, a)
<1>1. \A p, a : /\ P!KnownColumns(p, a) = KnownColumns(p, a)
                /\ P!KnownRows(p, a) = KnownRows(p, a)
  BY DEF P!KnownColumns, P!KnownRows, KnownColumns, KnownRows, P!Columns, P!Rows,
         P!BlockTypes, Columns, Rows, BlockTypes, P!CLB_IO_CLK, CLB_IO_CLK,
         P!BLOCK_RAM, BLOCK_RAM, P!CFG_CLB, CFG_CLB
<1>2. \A p, a : /\ P!FrameCount(p, a) = FrameCount(p, a)
                /\ P!IsValidFrameAddress(p, a) <=> IsValidFrameAddress(p, a)
  BY DEF P!FrameCount, FrameCount, P!IsValidFrameAddress, IsValidFrameAddress
<1>3. \A S, k : P!Following(S, k) = Following(S, k)
  BY DEF P!Following, Following
<1>4. \A p, a : P!ColumnNext(p, a) = ColumnNext(p, a)
  BY <1>2 DEF P!ColumnNext, ColumnNext
<1>5. \A p, a : P!BusNext(p, a) = BusNext(p, a)
  BY <1>1, <1>3, <1>4 DEF P!BusNext, BusNext
<1>6. \A p, a : P!RegionNext(p, a) = RegionNext(p, a)
  BY <1>1, <1>2, <1>3, <1>5 DEF P!RegionNext, RegionNext, P!RegionRows, RegionRows
<1>7. \A p, t, h : P!StartOf(p, t, h) = StartOf(p, t, h)
  BY <1>2 DEF P!StartOf, StartOf, P!FrameAddress, FrameAddress
<1> QED
  BY <1>6, <1>7 DEF P!GetNextFrameAddress, GetNextFrameAddress, P!BLOCK_RAM, BLOCK_RAM,
                    P!CFG_CLB, CFG_CLB

LEMMA SameOperators ==
  /\ \A p, a : P!RowChanges(p, a) <=> RowChanges(p, a)
  /\ \A S, a : P!After(S, a) = After(S, a)
  /\ \A d : P!ConfigurationPackage(d) = ConfigurationPackage(d)
  /\ P!Padding = Padding
  /\ P!ReaderNext => ReaderNext
<1>1. \A p, a : P!RowChanges(p, a) <=> RowChanges(p, a)
  BY SameNext DEF P!RowChanges, RowChanges
<1>2. \A S, a : P!After(S, a) = After(S, a)
  BY DEF P!After, After, P!First, First, P!Before, Before
<1>3. \A d : P!ConfigurationPackage(d) = ConfigurationPackage(d)
  BY Zenon DEF P!ConfigurationPackage, ConfigurationPackage, P!Packet, Packet, P!NopPacket,
               NopPacket, P!Zero, Zero, P!LastAddress, LastAddress, P!FrameAddress,
               FrameAddress, P!CLB_IO_CLK, CLB_IO_CLK
<1>4. P!Padding = Padding
  BY DEF P!Padding, Padding, P!Empty, Empty
<1>5. P!ReaderNext => ReaderNext
  BY SameNext, Zenon DEF
       P!ReaderNext, ReaderNext, P!Skip, Skip, P!WriteMask, WriteMask, P!WriteCtl1, WriteCtl1,
       P!WriteCmd, WriteCmd, P!WriteIdcode, WriteIdcode, P!WriteFar, WriteFar,
       P!StartFdri, StartFdri, P!FdriFrame, FdriFrame, P!EndFdri, EndFdri, P!Return, Return,
       P!At, At, P!Word, Word, P!RowChanges, RowChanges, P!registers, registers,
       P!writing, writing
<1> QED
  BY <1>1, <1>2, <1>3, <1>4, <1>5

\* xc7patch writes and reads its frames as xc7frames2bit does.
LEMMA SameSteps ==
  /\ \A a : P!CopyFrame(a) =>
       /\ pc = "copy" /\ pc' = pc /\ patch_frame = {a}
       /\ patch_data' = Append(patch_data, patched[a])
                          \o (IF RowChanges(part, a) THEN Padding ELSE <<>>)
       /\ patch_frame' = After(DOMAIN patched, a)
       /\ UNCHANGED <<part, file, patched, current, readerVars>>
  /\ P!WritePackage =>
       /\ pc = "copy" /\ pc' = "read" /\ patch_frame = {}
       /\ patch_data' = patch_data \o Padding
       /\ packets' = ConfigurationPackage(patch_data')
       /\ UNCHANGED <<part, file, patched, current, patch_frame, pos, registers, writing,
                      read, result>>
  /\ P!ReadBack =>
       /\ pc = "read" /\ ReaderNext
       /\ UNCHANGED <<part, file, patched, current, pc, patch_frame, patch_data>>
<1>1. ASSUME NEW a, P!CopyFrame(a)
      PROVE  /\ pc = "copy" /\ pc' = pc /\ patch_frame = {a}
             /\ patch_data' = Append(patch_data, patched[a])
                                \o (IF RowChanges(part, a) THEN Padding ELSE <<>>)
             /\ patch_frame' = After(DOMAIN patched, a)
             /\ UNCHANGED <<part, file, patched, current, readerVars>>
  <2>1. /\ pc = "copy" /\ pc' = pc /\ patch_frame = {a}
        /\ patch_frame' = After(DOMAIN patched, a)
        /\ UNCHANGED <<part, file, patched, current, readerVars>>
    BY <1>1, SameOperators DEF P!CopyFrame, readerVars, registers, writing,
                               P!readerVars, P!registers, P!writing
  <2>2. patch_data' = Append(patch_data, patched[a])
                        \o (IF P!RowChanges(part, a) THEN P!Padding ELSE <<>>)
    BY <1>1 DEF P!CopyFrame
  <2> QED
    BY <2>1, <2>2, SameOperators
<1>2. ASSUME P!WritePackage
      PROVE  /\ pc = "copy" /\ pc' = "read" /\ patch_frame = {}
             /\ patch_data' = patch_data \o Padding
             /\ packets' = ConfigurationPackage(patch_data')
             /\ UNCHANGED <<part, file, patched, current, patch_frame, pos, registers, writing,
                            read, result>>
  BY <1>2, SameOperators DEF P!WritePackage, registers, writing, P!registers, P!writing
<1>3. ASSUME P!ReadBack
      PROVE  /\ pc = "read" /\ ReaderNext
             /\ UNCHANGED <<part, file, patched, current, pc, patch_frame, patch_data>>
  BY <1>3, SameOperators DEF P!ReadBack, P!tool
<1> QED
  BY <1>1, <1>2, <1>3

\* A debug bitstream that was read to its end has its frames.
LEMMA DebugDone == DebugInv /\ result = "some" => pc = "read" /\ read = base
<1> SUFFICES ASSUME DebugInv, result = "some" PROVE pc = "read" /\ read = base
  OBVIOUS
<1>1. pc = "read"
  BY DEF DebugInv, ReaderInit
<1>2. PICK key : DebugRead(base, key) /\ Keys(key) = DOMAIN base
  BY <1>1 DEF DebugInv
<1>3. Len(key) \in Nat /\ pos = 4 * Len(key) + 2
  BY <1>2, DebugPlaces DEF DebugRead
<1>4. Taken(key) = 1..Len(key)
  BY <1>3 DEF Taken
<1>5. read = [a \in DOMAIN base |-> base[a]]
  BY <1>2, <1>4 DEF DebugRead, Keys
<1> QED
  BY <1>1, <1>5 DEF DebugInv

\* What xc7patch reads are frames at addresses, however they were written.
LEMMA ReadAtAddresses ==
  ASSUME PatchInv, stage = "make", result = "some"
  PROVE  DOMAIN read \subseteq Addresses /\ pc = "read"
<1>1. CASE RowInv /\ base = <<>>
  BY <1>1 DEF RowInv, FillInv, ReaderInit, PackageRead
<1>2. CASE DebugInv
  BY <1>2, DebugDone DEF DebugInv
<1> QED
  BY <1>1, <1>2 DEF PatchInv

\* Steps that leave the part and the frames of xc7frames2bit alone.
LEMMA WalkedUnchanged ==
  Walked /\ UNCHANGED <<part, file, frames, current>> /\ pc # "fill" => Walked'
BY NextInv DEF Walked, vars

\* A step of xc7frames2bit.
LEMMA MakeStep == PatchInv /\ Make => PatchInv'
<1> SUFFICES ASSUME PatchInv, Make PROVE PatchInv'
  OBVIOUS
<1>1. /\ stage = "make" /\ pc \in {"fill", "copy", "read"} /\ ToolNext
      /\ UNCHANGED <<stage, delta, base, patched, patch_frame, patch_data>>
  BY DEF Make, writer
<1>2. CASE RowInv /\ base = <<>>
  <2>1. RowInv' /\ base' = <<>>
    BY <1>1, <1>2, RowStep
  <2>2. Walked'
    BY <2>1 DEF RowInv, FillInv, Walked
  <2> QED
    BY <1>1, <2>1, <2>2 DEF PatchInv
<1>3. CASE DebugInv
  <2>1. pc = "read"
    BY <1>1, <1>3 DEF DebugInv
  <2>2. ReadBack
    BY <1>1, <2>1 DEF ToolNext, Fill, StartCopy, CopyFrame, WritePackage
  <2>3. ReaderNext /\ UNCHANGED <<part, file, frames, current, pc, frame, packet_data>>
    BY <2>2 DEF ReadBack, tool
  <2>4. part \in Parts /\ DOMAIN base \subseteq Addresses
    BY <1>3 DEF PatchInv, Walked, TypeOK, DebugInv
  <2>5. PICK key : DebugRead(base, key) /\ Keys(key) = DOMAIN base
    BY <1>3, <2>1 DEF DebugInv
  <2>6. DebugRead(base, key)'
    BY <1>1, <2>3, <2>4, <2>5, DebugReadStep
  <2>7. DebugInv'
    BY <1>1, <1>3, <2>1, <2>3, <2>5, <2>6 DEF DebugInv
  <2>8. Walked'
    BY <2>1, <2>3, WalkedUnchanged DEF PatchInv
  <2> QED
    BY <1>1, <2>7, <2>8 DEF PatchInv
<1> QED
  BY <1>1, <1>2, <1>3 DEF PatchInv

\* A debug bitstream is begun.
LEMMA LoadStep == PatchInv /\ LoadDebug => PatchInv'
<1> SUFFICES ASSUME PatchInv, LoadDebug PROVE PatchInv'
  OBVIOUS
<1>1. /\ stage = "make" /\ pc = "copy" /\ packet_data = <<>> /\ pc' = "debug"
      /\ UNCHANGED <<part, file, frames, current, packet_data, pos, registers, writing,
                     read, result, stage, patch_data>>
  BY DEF LoadDebug, writer
<1>2. PICK keys \in {DOMAIN frames, file \cup {Zero}} :
        /\ base' = [a \in keys |-> frames[a]]
        /\ packets' = <<Packet("IDCODE", <<Idcode>>)>>
        /\ frame' = First(keys)
  BY DEF LoadDebug
<1>3. ReaderInit
  BY <1>1 DEF PatchInv, DebugInv, RowInv
<1>4. keys \subseteq Addresses
  <2>1. \A a \in file : a \in DOMAIN frames
    BY DEF PatchInv, Walked, OnlyMissingAdded
  <2>2. DOMAIN frames \subseteq Addresses
    BY DEF PatchInv, Walked, TypeOK
  <2> QED
    BY <1>2, <2>1, <2>2, ZeroIsAddress
<1>5. DOMAIN base' = keys /\ base' = [a \in DOMAIN base' |-> base'[a]]
  BY <1>2
<1>6. DebugMade(base', packets', frame')
  BY <1>2, <1>4, <1>5, DebugStart
<1>7. frame' \subseteq keys
  BY <1>2 DEF First
<1>8. DebugInv'
  BY <1>1, <1>3, <1>4, <1>5, <1>6, <1>7, ReaderWaits DEF DebugInv
<1>9. Walked'
  BY <1>1, WalkedUnchanged DEF PatchInv
<1> QED
  BY <1>1, <1>8, <1>9 DEF PatchInv

\* Four packets more.
LEMMA DebugFrameStep == ASSUME PatchInv, NEW a, DebugFrame(a), stage = "make" PROVE PatchInv'
<1>1. /\ pc = "debug" /\ frame = {a} /\ packets' = packets \o FramePackets(a, base[a])
      /\ frame' = After(DOMAIN base, a)
      /\ pc' = IF frame' = {} THEN "read" ELSE pc
      /\ UNCHANGED <<part, file, frames, current, packet_data, pos, registers, writing, read,
                     result, stage, base, patch_data>>
  BY DEF DebugFrame, writer
<1>2. DebugInv
  BY <1>1 DEF PatchInv, RowInv, FillInv
<1>3. /\ a \in DOMAIN base /\ DOMAIN base \subseteq Addresses /\ ReaderInit /\ packet_data = <<>>
      /\ DebugMade(base, packets, {a})
  BY <1>1, <1>2 DEF DebugInv
<1>4. DebugMade(base, packets', frame')
  BY <1>1, <1>3, DebugNext
<1>5. frame' \subseteq DOMAIN base
  BY <1>1, <1>3, AfterFacts
<1>6. ReaderInit'
  BY <1>1, <1>3, ReaderWaits
<1>7. CASE frame' # {}
  <2>1. DebugInv'
    BY <1>1, <1>2, <1>3, <1>4, <1>5, <1>6, <1>7 DEF DebugInv
  <2> QED
    BY <1>1, <1>7, <2>1, WalkedUnchanged DEF PatchInv
<1>8. CASE frame' = {}
  <2>1. PICK key : /\ DebugList(base, packets', key)
                   /\ Keys(key) = DOMAIN base
    BY <1>4, <1>8, PassedAll DEF DebugMade
  <2>2. DebugRead(base, key)'
    BY <1>1, <1>6, <2>1, DebugReadStart
  <2>3. DebugInv'
    BY <1>1, <1>2, <1>3, <1>8, <2>1, <2>2 DEF DebugInv
  <2> QED
    BY <1>1, <1>8, <2>3, WalkedUnchanged DEF PatchInv
<1> QED
  BY <1>7, <1>8

\* xc7patch reads the bitstream and takes in the frames file.
LEMMA PatchStep == PatchInv /\ PatchFrames => PatchInv'
<1> SUFFICES ASSUME PatchInv, PatchFrames PROVE PatchInv'
  OBVIOUS
<1>1. /\ stage = "make" /\ result = "some" /\ base' = read /\ packet_data' = <<>>
      /\ ReaderRestart /\ UNCHANGED <<part, file, frames, current>>
  BY DEF PatchFrames
<1>2. DOMAIN read \subseteq Addresses /\ pc = "read"
  BY <1>1, ReadAtAddresses
<1>3. ReaderInit'
  BY <1>1 DEF ReaderRestart, ReaderInit
<1>4. CASE delta' \subseteq DOMAIN read
  <2>1. /\ stage' = "patch" /\ pc' = "copy" /\ patch_data' = patch_data
        /\ patched' = [a \in DOMAIN read |-> IF a \in delta' THEN NewData(a) ELSE read[a]]
        /\ patch_frame' = First(DOMAIN patched')
    BY <1>4 DEF PatchFrames
  <2>2. patch_data = <<>> /\ DOMAIN patched' = DOMAIN read
    BY <1>1, <2>1 DEF PatchInv
  <2>3. Copying(part, patched', <<>>, First(DOMAIN patched'))
    BY <1>2, <2>2, CopyInit
  <2>4. Copying(part, patched, patch_data, patch_frame)'
    BY <1>1, <2>1, <2>2, <2>3
  <2>5. patch_frame' \subseteq DOMAIN base'
    BY <1>1, <2>1, <2>2 DEF First
  <2>6. PatchedInv'
    BY <1>1, <1>2, <1>3, <2>1, <2>4, <2>5 DEF PatchedInv
  <2> QED
    BY <1>1, <1>2, <2>1, <2>6, WalkedUnchanged DEF PatchInv
<1>5. CASE ~ (delta' \subseteq DOMAIN read)
  <2>1. stage' = "failed" /\ pc' = pc
    BY <1>5 DEF PatchFrames
  <2> QED
    BY <1>1, <1>2, <2>1, WalkedUnchanged DEF PatchInv
<1> QED
  BY <1>4, <1>5

\* xc7patch writes its bitstream, and somebody reads it.
LEMMA WriteStep == PatchInv /\ WritePatched => PatchInv'
<1> SUFFICES ASSUME PatchInv, WritePatched PROVE PatchInv'
  OBVIOUS
<1>1. /\ stage = "patch" /\ PatchedInv
      /\ UNCHANGED <<frames, packet_data, stage, delta, base>>
  BY DEF WritePatched, PatchInv
<1>2. /\ DOMAIN base \subseteq Addresses /\ DOMAIN patched = DOMAIN base
      /\ part \in Parts /\ pc # "fill"
  BY <1>1 DEF PatchedInv, PatchInv, Walked, TypeOK
<1>3. ASSUME UNCHANGED <<part, file, current, patched>>, pc' # "fill", PatchedInv'
      PROVE  PatchInv'
  BY <1>1, <1>2, <1>3, WalkedUnchanged DEF PatchInv
<1>4. ASSUME NEW a \in patch_frame, P!CopyFrame(a) PROVE PatchInv'
  <2>1. /\ pc = "copy" /\ pc' = pc /\ patch_frame = {a}
        /\ patch_data' = Append(patch_data, patched[a])
                           \o (IF RowChanges(part, a) THEN Padding ELSE <<>>)
        /\ patch_frame' = After(DOMAIN patched, a)
        /\ UNCHANGED <<part, file, patched, current, pos, registers, writing, read, result>>
    BY <1>4, SameSteps DEF readerVars
  <2>2. a \in DOMAIN patched /\ Copying(part, patched, patch_data, {a}) /\ ReaderInit
    BY <1>1, <1>2, <2>1 DEF PatchedInv
  <2>3. Copying(part, patched, patch_data', patch_frame')
    BY <1>2, <2>1, <2>2, CopyStep
  <2>4. Copying(part, patched, patch_data, patch_frame)'
    BY <2>1, <2>3
  <2>5. patch_frame' \subseteq DOMAIN base
    BY <1>2, <2>1, <2>2, AfterFacts
  <2>6. PatchedInv'
    BY <1>1, <2>1, <2>2, <2>4, <2>5, ReaderWaits DEF PatchedInv
  <2> QED
    BY <1>2, <1>3, <2>1, <2>6
<1>5. CASE P!WritePackage
  <2>1. /\ pc = "copy" /\ pc' = "read" /\ patch_frame = {}
        /\ patch_data' = patch_data \o Padding
        /\ packets' = ConfigurationPackage(patch_data')
        /\ UNCHANGED <<part, file, patched, current, patch_frame, pos, registers, writing,
                       read, result>>
    BY <1>5, SameSteps
  <2>2. Copying(part, patched, patch_data, {}) /\ ReaderInit
    BY <1>1, <2>1 DEF PatchedInv
  <2>3. Copied(part, patched, patch_data')
    BY <1>2, <2>1, <2>2, CopyEnd
  <2>4. Copied(part, patched, patch_data)' /\ ReaderInit'
    BY <2>1, <2>2, <2>3, ReaderWaits
  <2>5. PackageRead(patched, patch_data)'
    BY <2>1, <2>4 DEF PackageRead, ReaderInit
  <2>6. PatchedInv'
    BY <1>1, <2>1, <2>5 DEF PatchedInv
  <2> QED
    BY <1>3, <2>1, <2>6
<1>6. CASE P!ReadBack
  <2>1. /\ pc = "read" /\ ReaderNext
        /\ UNCHANGED <<part, file, patched, current, pc, patch_frame, patch_data>>
    BY <1>6, SameSteps
  <2>2. PackageRead(patched, patch_data)'
    BY <1>1, <1>2, <2>1, PackageStep DEF PatchedInv
  <2>3. PatchedInv'
    BY <1>1, <2>1, <2>2 DEF PatchedInv
  <2> QED
    BY <1>3, <2>1, <2>3
<1> QED
  BY <1>4, <1>5, <1>6 DEF WritePatched

\* A step that changes nothing changes none of it.
LEMMA PatchStutters == PatchInv /\ UNCHANGED patchVars => PatchInv'
<1> SUFFICES ASSUME PatchInv, UNCHANGED patchVars PROVE PatchInv'
  OBVIOUS
<1>1. /\ UNCHANGED <<part, file, frames, current, pc, frame, packet_data, packets, pos,
                     registers, writing, read, result>>
      /\ UNCHANGED <<stage, delta, base, patched, patch_frame, patch_data>>
  BY DEF patchVars, allVars, tool, writer, readerVars
<1>2. Walked'
  BY <1>1, NextInv DEF PatchInv, Walked, vars
<1>3. RowInv => RowInv'
  BY <1>1, RowStep DEF allVars, tool, readerVars
<1>4. DebugInv => DebugInv'
  <2> SUFFICES ASSUME DebugInv PROVE DebugInv'
    OBVIOUS
  <2>1. \A key : DebugRead(base, key) => DebugRead(base, key)'
    <3> SUFFICES ASSUME NEW key, DebugRead(base, key) PROVE DebugRead(base, key)'
      OBVIOUS
    <3>1. Taken(key)' = Taken(key)
      BY <1>1 DEF Taken, writing
    <3> QED
      BY <1>1, <3>1 DEF DebugRead, registers, writing
  <2>2. pc = "debug" => ReaderInit' /\ DebugMade(base, packets, frame)'
    BY <1>1, ReaderWaits DEF DebugInv
  <2> QED
    BY <1>1, <2>1, <2>2 DEF DebugInv
<1>5. PatchedInv => PatchedInv'
  BY <1>1 DEF PatchedInv, PackageRead, ReaderInit, registers, writing
<1> QED
  BY <1>1, <1>2, <1>3, <1>4, <1>5 DEF PatchInv

\* The invariant holds in every reachable state.
LEMMA PatchInvariant == PatchSpec => []PatchInv
<1>1. PatchInit => PatchInv
  <2> SUFFICES ASSUME PatchInit PROVE PatchInv
    OBVIOUS
  <2>1. RowInv
    BY RowInit DEF PatchInit
  <2> QED
    BY <2>1 DEF PatchInit, PatchInv, RowInv, FillInv, Walked
<1>2. PatchInv /\ [PatchNext]_patchVars => PatchInv'
  <2>1. ASSUME PatchInv, NEW a \in frame, DebugFrame(a) PROVE PatchInv'
    <3>1. pc = "debug"
      BY <2>1 DEF DebugFrame
    <3>2. stage = "make"
      BY <2>1, <3>1 DEF PatchInv, PatchedInv
    <3> QED
      BY <2>1, <3>2, DebugFrameStep
  <2> QED
    BY <2>1, MakeStep, LoadStep, PatchStep, WriteStep, PatchStutters DEF PatchNext
<1> QED
  BY <1>1, <1>2, PTL DEF PatchSpec

\* In every stage, what is read to the end is what was to be written.
LEMMA PatchRoundTrip == PatchInv => RoundTrip /\ FilledInStep /\ NoFrameMissing
<1> SUFFICES ASSUME PatchInv PROVE RoundTrip /\ FilledInStep /\ NoFrameMissing
  OBVIOUS
<1>1. packet_data # <<>> => RowInv
  BY DEF PatchInv, DebugInv, PatchedInv
<1>2. RoundTrip
  BY <1>1, RowRoundTrip DEF RoundTrip
<1>3. FilledInStep
  BY FilledFromWalk DEF PatchInv, Walked
<1> QED
  BY <1>2, <1>3 DEF PatchInv, Walked

\* In the tools that take a bitstream apart, too, the frames of xc7frames2bit
\* are complete, have the order of the part and come back where they belong.
THEOREM PatchKeepsRoundTrip == PatchSpec => [](RoundTrip /\ FilledInStep /\ NoFrameMissing)
BY PatchInvariant, PatchRoundTrip, PTL

\* Whatever frames a bitstream has and whatever frames are patched in, each
\* frame up to the first that lacks is read back at its address, with the new
\* data if there are any.
THEOREM PatchedBitstream == PatchSpec => []PatchedUpToGap
<1>1. PatchInv => PatchedUpToGap
  <2> SUFFICES ASSUME PatchInv, stage = "patch", result = "some",
                      NEW a \in DOMAIN base, InStepTo(part, DOMAIN base, a)
               PROVE  /\ a \in DOMAIN read
                      /\ read[a] = IF a \in delta THEN NewData(a) ELSE base[a]
    BY DEF PatchedUpToGap
  <2>1. PatchedInv
    BY DEF PatchInv
  <2>2. PackageRead(patched, patch_data)
    BY <2>1 DEF PatchedInv, ReaderInit
  <2>3. Collected(part, patched, read)
    BY <2>2 DEF PackageRead
  <2>4. DOMAIN patched = DOMAIN base
        /\ patched[a] = IF a \in delta THEN NewData(a) ELSE base[a]
    BY <2>1 DEF PatchedInv
  <2> QED
    BY <2>3, <2>4 DEF Collected
<1> QED
  BY <1>1, PatchInvariant, PTL

\* A debug bitstream, whatever frames it has, is read back as it was made.
THEOREM DebugBitstream == PatchSpec => []DebugReadsBack
<1>1. PatchInv => DebugReadsBack
  BY DebugDone DEF PatchInv, DebugReadsBack, Debug
<1> QED
  BY <1>1, PatchInvariant, PTL

\* From a debug bitstream with all frames of a part gen_part_base_yaml makes
\* that part.
THEOREM PartFromBitstream == PatchSpec => []PartComesBack
<1>1. PatchInv => PartComesBack
  <2> SUFFICES ASSUME PatchInv, pc = "read", Debug, DOMAIN base = ValidAddresses(part)
               PROVE  PartOf(Louts(packets)) = part
    BY DEF PartComesBack
  <2>1. DebugInv /\ part \in Parts
    BY DEF PatchInv, Debug, Walked, TypeOK
  <2>2. PICK key : DebugRead(base, key) /\ Keys(key) = DOMAIN base
    BY <2>1 DEF DebugInv
  <2>3. DebugList(base, packets, key)
    BY <2>2 DEF DebugRead
  <2>4. Keys(key) = ValidAddresses(part)
    BY <2>2
  <2>5. Louts(packets) = ValidAddresses(part)
    BY <2>3, <2>4, LoutsAreKeys
  <2> QED
    BY <2>1, <2>5, PartOfValid
<1> QED
  BY <1>1, PatchInvariant, PTL
=============================================================================
