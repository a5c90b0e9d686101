------------------------ MODULE AppListSessionProofs ------------------------
(***************************************************************************)
(* For any messages, any limit of a text and any number of channels: every *)
(* packet has the length that its header says, the session is one of       *)
(* AppListServer, and what the plugin takes of a message is what was sent. *)
(***************************************************************************)
EXTENDS AppListSession, AppListServerProofs, SequenceTheorems
-----------------------------------------------------------------------------
(* The length of a packet *)

Framed(w) == w[3] + 65536 * w[4] = 2 * Len(w)

\* w are the words of size bytes.
Sized(w, size) == w \in Seq(Nat) /\ size \in Nat /\ 2 * Len(w) = size

LEMMA U16Sized == ASSUME NEW n \in Nat PROVE Sized(U16(n), 2)
  BY DEF U16, Sized

LEMMA U32Words ==
    ASSUME NEW n \in Nat
    PROVE  /\ Sized(U32(n), 4)
           /\ U32(n) \in Seq(Nat) /\ Len(U32(n)) = 2
           /\ U32(n)[1] + 65536 * U32(n)[2] = n
<1>1. n % 65536 \in Nat /\ n \div 65536 \in Nat /\ n = 65536 * (n \div 65536) + (n % 65536)
  OBVIOUS
<1> QED
  BY <1>1 DEF U32, Sized

LEMMA U32Sized == ASSUME NEW n \in Nat PROVE Sized(U32(n), 4)
  BY U32Words

LEMMA JoinWords ==
    ASSUME NEW a \in Seq(Nat), NEW b \in Seq(Nat)
    PROVE  /\ a \o b \in Seq(Nat) /\ Len(a \o b) = Len(a) + Len(b)
           /\ \A i \in 1 .. Len(a) + Len(b) :
                  (a \o b)[i] = IF i <= Len(a) THEN a[i] ELSE b[i - Len(a)]
  BY ConcatProperties, Zenon

LEMMA JoinSized ==
    ASSUME NEW a, NEW b, NEW m, NEW n, Sized(a, m), Sized(b, n)
    PROVE  Sized(a \o b, m + n)
<1>1. /\ a \in Seq(Nat) /\ b \in Seq(Nat) /\ m \in Nat /\ n \in Nat
      /\ 2 * Len(a) = m /\ 2 * Len(b) = n /\ Len(a) \in Nat /\ Len(b) \in Nat
  BY DEF Sized
<1>2. a \o b \in Seq(Nat) /\ Len(a \o b) = Len(a) + Len(b)
  BY <1>1, JoinWords
<1>3. 2 * Len(a \o b) = m + n /\ m + n \in Nat
  BY ONLY <1>1, <1>2
<1> QED
  BY <1>2, <1>3 DEF Sized

LEMMA EmptySized == Sized(<<>>, 0)
  BY DEF Sized

LEMMA RunSized ==
    ASSUME NEW n \in Even, NEW c \in Nat
    PROVE  Sized([i \in 1 .. n \div 2 |-> c], n)
<1>1. n \in Nat /\ n \div 2 \in Nat /\ 2 * (n \div 2) = n
  BY DEF Even
<1>2. [i \in 1 .. n \div 2 |-> c] \in Seq(Nat) /\ Len([i \in 1 .. n \div 2 |-> c]) = n \div 2
  BY <1>1
<1> QED
  BY <1>1, <1>2 DEF Sized

LEMMA TextSized ==
    ASSUME NEW p \in PDUs, NEW f \in Texts
    PROVE  Sized(Text(p, f), 2 + p.text[f])
<1>1. p.text[f] \in Even /\ p.text[f] \in Nat
  BY DEF PDUs, Even
<1>2. Letter[f] \in Nat
  BY DEF Texts, Letter
<1>3. Sized(U16(p.text[f]), 2)
  BY <1>1, U16Sized
<1>4. Sized(Chars(f, p.text[f]), p.text[f])
  BY <1>1, <1>2, RunSized DEF Chars
<1> QED
  BY <1>3, <1>4, JoinSized DEF Text

LEMMA OptTextSized ==
    ASSUME NEW p \in PDUs, NEW f \in Texts
    PROVE  Sized(OptText(p, f), OptSize(p, f))
  BY TextSized, EmptySized DEF OptText, OptSize

\* w is a header that promises size bytes, and the words of the first m of them.
Begun(w, size, m) ==
    /\ w \in Seq(Nat) /\ size \in Nat /\ m \in Nat
    /\ 2 * Len(w) = HeaderSize + m
    /\ w[3] + 65536 * w[4] = HeaderSize + size

LEMMA HeaderBegun ==
    ASSUME NEW cmd \in DOMAIN Cmd, NEW size \in Nat
    PROVE  Begun(Header(cmd, size), size, 0)
<1> DEFINE a == U32(Cmd[cmd])
           b == U32(HeaderSize + size)
<1>1. Cmd[cmd] \in Nat /\ HeaderSize + size \in Nat
  BY DEF Cmd, HeaderSize
<1>2. /\ a \in Seq(Nat) /\ Len(a) = 2 /\ b \in Seq(Nat) /\ Len(b) = 2
      /\ b[1] + 65536 * b[2] = HeaderSize + size
  BY <1>1, U32Words
<1> HIDE DEF a, b
<1>0. a \in Seq(Nat) /\ b \in Seq(Nat)
  BY <1>2
<1>3. /\ a \o b \in Seq(Nat) /\ Len(a \o b) = Len(a) + Len(b)
      /\ \A i \in 1 .. Len(a) + Len(b) :
             (a \o b)[i] = IF i <= Len(a) THEN a[i] ELSE b[i - Len(a)]
  BY <1>0, JoinWords
<1>4. 3 \in 1 .. Len(a) + Len(b) /\ 4 \in 1 .. Len(a) + Len(b)
  BY <1>2
<1>5. (a \o b)[3] = b[1] /\ (a \o b)[4] = b[2] /\ 2 * Len(a \o b) = 8
  BY <1>2, <1>3, <1>4
<1> QED
  BY <1>2, <1>3, <1>5 DEF Begun, Header, HeaderSize, a, b

LEMMA Extended ==
    ASSUME NEW w, NEW size, NEW m, Begun(w, size, m), NEW b, NEW n, Sized(b, n)
    PROVE  Begun(w \o b, size, m + n)
<1>1. /\ w \in Seq(Nat) /\ b \in Seq(Nat) /\ m \in Nat /\ n \in Nat /\ size \in Nat
      /\ 2 * Len(w) = 8 + m /\ 2 * Len(b) = n
      /\ w[3] + 65536 * w[4] = 8 + size
  BY DEF Begun, Sized, HeaderSize
<1>2. /\ w \o b \in Seq(Nat) /\ Len(w \o b) = Len(w) + Len(b)
      /\ \A i \in 1 .. Len(w) + Len(b) :
             (w \o b)[i] = IF i <= Len(w) THEN w[i] ELSE b[i - Len(w)]
  BY <1>1, JoinWords
<1>3. /\ Len(w) \in Nat /\ Len(b) \in Nat
      /\ m \in Nat /\ n \in Nat /\ 2 * Len(w) = 8 + m /\ 2 * Len(b) = n
  <2>1. w \in Seq(Nat) /\ b \in Seq(Nat)
    BY DEF Begun, Sized
  <2>2. Len(w) \in Nat /\ Len(b) \in Nat
    BY ONLY <2>1
  <2>3. m \in Nat /\ n \in Nat /\ 2 * Len(w) = 8 + m /\ 2 * Len(b) = n
    BY DEF Begun, Sized, HeaderSize
  <2> QED
    BY ONLY <2>2, <2>3
<1>4. 3 \in 1 .. Len(w) + Len(b) /\ 4 \in 1 .. Len(w) + Len(b) /\ 4 <= Len(w)
  BY ONLY <1>3
<1>5. (w \o b)[3] = w[3] /\ (w \o b)[4] = w[4]
  BY <1>2, <1>4
<1>6. Len(w \o b) = Len(w) + Len(b)
  BY <1>2
<1>7. 2 * Len(w \o b) = 8 + (m + n)
  BY ONLY <1>3, <1>6
<1> QED
  BY <1>1, <1>2, <1>5, <1>7 DEF Begun, HeaderSize

\* What the theorem says of a packet, and of a message that is not sent.
Good(w) == w = Refused \/ (w \in Seq(Nat) /\ Framed(w))

LEMMA Finished == ASSUME NEW w, NEW size, Begun(w, size, size) PROVE Good(w)
  BY DEF Begun, Framed, Good
-----------------------------------------------------------------------------
(* The messages *)

LEMMA CapsFramed == ASSUME NEW p \in PDUs PROVE Good(SendCaps(p))
<1> DEFINE x == p.text.provider
           y == p.text.uniqueId
           size == 2 + 2 + x + 2 + y
<1>1. /\ p.version \in Nat /\ "provider" \in Texts /\ "uniqueId" \in Texts
      /\ x \in Nat /\ y \in Nat /\ size \in Nat /\ "caps" \in DOMAIN Cmd
  BY DEF PDUs, Texts, Even, Cmd
<1>2. /\ Sized(U16(p.version), 2)
      /\ Sized(Text(p, "provider"), 2 + x) /\ Sized(Text(p, "uniqueId"), 2 + y)
  BY <1>1, U16Sized, TextSized
<1>3. Begun(Header("caps", size), size, 0)
  BY <1>1, HeaderBegun
<1>4. Begun(Header("caps", size) \o U16(p.version), size, 2)
  BY <1>2, <1>3, Extended
<1>5. Begun(Header("caps", size) \o U16(p.version) \o Text(p, "provider"), size, 2 + (2 + x))
  BY <1>2, <1>4, Extended
<1>6. Begun(Header("caps", size) \o U16(p.version) \o Text(p, "provider") \o Text(p, "uniqueId"),
            size, (2 + (2 + x)) + (2 + y))
  BY <1>2, <1>5, Extended
<1>7. (2 + (2 + x)) + (2 + y) = size
  BY <1>1
<1> QED
  BY <1>6, <1>7, Finished DEF SendCaps, Good

LEMMA DeleteFramed == ASSUME NEW p \in PDUs PROVE Good(SendDelete(p))
<1> DEFINE x == OptSize(p, "id")
           y == OptSize(p, "group")
           size == 4 + x + y
           w == Header("delete", size) \o U32(p.flags)
<1>1. p.flags \in Nat /\ "id" \in Texts /\ "group" \in Texts /\ "delete" \in DOMAIN Cmd
  BY DEF PDUs, Texts, Cmd
<1>2. Sized(U32(p.flags), 4) /\ Sized(OptText(p, "id"), x) /\ Sized(OptText(p, "group"), y)
  BY <1>1, U32Sized, OptTextSized
<1>3. x \in Nat /\ y \in Nat /\ size \in Nat
  BY <1>2 DEF Sized
<1>4. Begun(w, size, 0 + 4)
  BY <1>1, <1>2, <1>3, HeaderBegun, Extended
<1> HIDE DEF w, x, y
<1>5. Begun(w \o OptText(p, "id"), size, 0 + 4 + x)
  BY <1>2, <1>4, Extended
<1>6. Begun(w \o OptText(p, "id") \o OptText(p, "group"), size, 0 + 4 + x + y)
  BY <1>2, <1>5, Extended
<1>7. 0 + 4 + x + y = size
  BY <1>3
<1> QED
  BY <1>6, <1>7, Finished DEF SendDelete, Good, w, x, y

LEMMA DeleteProviderFramed == ASSUME NEW p \in PDUs PROVE Good(SendDeleteProvider(p))
<1> DEFINE x == OptSize(p, "provider")
           size == 4 + x
           w == Header("deleteProvider", size) \o U32(p.flags)
<1>1. p.flags \in Nat /\ "provider" \in Texts /\ "deleteProvider" \in DOMAIN Cmd
  BY DEF PDUs, Texts, Cmd
<1>2. Sized(U32(p.flags), 4) /\ Sized(OptText(p, "provider"), x)
  BY <1>1, U32Sized, OptTextSized
<1>3. x \in Nat /\ size \in Nat
  BY <1>2 DEF Sized
<1>4. Begun(w, size, 0 + 4)
  BY <1>1, <1>2, <1>3, HeaderBegun, Extended
<1> HIDE DEF w, x
<1>5. Begun(w \o OptText(p, "provider"), size, 0 + 4 + x)
  BY <1>2, <1>4, Extended
<1>6. 0 + 4 + x = size
  BY <1>3
<1> QED
  BY <1>5, <1>6, Finished DEF SendDeleteProvider, Good, w, x

LEMMA AssociateFramed == ASSUME NEW p \in PDUs PROVE Good(SendAssociate(p))
<1> DEFINE a == OptSize(p, "id")
           b == OptSize(p, "group")
           c == OptSize(p, "exec")
           d == OptSize(p, "desc")
           size == 8 + a + b + c + d
           w == Header("associate", size) \o U32(p.flags) \o U32(p.window)
<1>1. /\ p.flags \in Nat /\ p.window \in Nat /\ "associate" \in DOMAIN Cmd
      /\ {"id", "group", "exec", "desc"} \subseteq Texts
  BY DEF PDUs, Texts, Cmd
<1>2. /\ Sized(U32(p.flags), 4) /\ Sized(U32(p.window), 4)
      /\ Sized(OptText(p, "id"), a) /\ Sized(OptText(p, "group"), b)
      /\ Sized(OptText(p, "exec"), c) /\ Sized(OptText(p, "desc"), d)
  BY <1>1, U32Sized, OptTextSized
<1>3. a \in Nat /\ b \in Nat /\ c \in Nat /\ d \in Nat
  BY <1>2 DEF Sized
<1>4. Begun(w, size, 0 + 4 + 4)
  <2>0. size \in Nat
    BY <1>3
  <2>1. Begun(Header("associate", size), size, 0)
    BY <1>1, <2>0, HeaderBegun
  <2>2. Begun(Header("associate", size) \o U32(p.flags), size, 0 + 4)
    BY <1>2, <2>1, Extended
  <2> QED
    BY <1>2, <2>2, Extended
<1> HIDE DEF w, a, b, c, d
<1>5. Begun(w \o OptText(p, "id"), size, 0 + 4 + 4 + a)
  BY <1>2, <1>4, Extended
<1>6. Begun(w \o OptText(p, "id") \o OptText(p, "group"), size, 0 + 4 + 4 + a + b)
  BY <1>2, <1>5, Extended
<1>7. Begun(w \o OptText(p, "id") \o OptText(p, "group") \o OptText(p, "exec"),
            size, 0 + 4 + 4 + a + b + c)
  BY <1>2, <1>6, Extended
<1>8. Begun(w \o OptText(p, "id") \o OptText(p, "group") \o OptText(p, "exec")
              \o OptText(p, "desc"), size, 0 + 4 + 4 + a + b + c + d)
  BY <1>2, <1>7, Extended
<1>9. 0 + 4 + 4 + a + b + c + d = size
  BY <1>3
<1> QED
  BY <1>8, <1>9, Finished DEF SendAssociate, Good, w, a, b, c, d

LEMMA IconSized ==
    ASSUME NEW p \in PDUs, ~(Has(p.flags, Field.icon) /\ p.icon = NoIcon)
    PROVE  Sized(OptIcon(p), IF Has(p.flags, Field.icon) THEN 7 * 4 + p.icon ELSE 0)
<1>1. CASE ~Has(p.flags, Field.icon)
  BY <1>1, EmptySized DEF OptIcon
<1>2. CASE Has(p.flags, Field.icon)
  <2>1. p.icon \in Even /\ p.icon \in Nat /\ 200 \in Nat
    BY <1>2 DEF PDUs, Even
  <2>2. Sized(IconInfo, 24)
    <3>1. IconInfo \in Seq(Nat) /\ Len(IconInfo) = 12
      BY DEF IconInfo
    <3> QED
      BY <3>1 DEF Sized
  <2>3. Sized(U32(p.icon), 4)
    BY <2>1, U32Sized
  <2>4. Sized(Image(p.icon), p.icon)
    <3>1. Sized([i \in 1 .. p.icon \div 2 |-> 200], p.icon)
      BY <2>1, RunSized
    <3> QED
      BY <3>1 DEF Image
  <2>5. Sized(IconInfo \o U32(p.icon), 24 + 4)
    BY <2>2, <2>3, JoinSized
  <2>6. Sized(IconInfo \o U32(p.icon) \o Image(p.icon), 24 + 4 + p.icon)
    BY <2>4, <2>5, JoinSized
  <2>7. 24 + 4 + p.icon = 7 * 4 + p.icon
    BY <2>1
  <2> QED
    BY <1>2, <2>6, <2>7 DEF OptIcon
<1> QED
  BY <1>1, <1>2

LEMMA UpdateFramed == ASSUME NEW p \in PDUs PROVE Good(SendUpdate(p))
<1> DEFINE a == OptSize(p, "id")
           b == OptSize(p, "group")
           c == OptSize(p, "exec")
           d == OptSize(p, "workingDir")
           e == OptSize(p, "desc")
           f == IF Has(p.flags, Field.icon) THEN 7 * 4 + p.icon ELSE 0
           size == 4 + a + b + c + d + e + f
           w == Header("update", size) \o U32(p.flags)
<1>1. /\ p.flags \in Nat /\ "update" \in DOMAIN Cmd
      /\ {"id", "group", "exec", "workingDir", "desc"} \subseteq Texts
  BY DEF PDUs, Texts, Cmd
<1>2. CASE NoUpdate(p)
  BY <1>2 DEF SendUpdate, Good
<1>3. CASE ~NoUpdate(p)
  <2>1. /\ Sized(U32(p.flags), 4)
        /\ Sized(OptText(p, "id"), a) /\ Sized(OptText(p, "group"), b)
        /\ Sized(OptText(p, "exec"), c) /\ Sized(OptText(p, "workingDir"), d)
        /\ Sized(OptText(p, "desc"), e)
    BY <1>1, U32Sized, OptTextSized
  <2>2. Sized(OptIcon(p), f)
    BY <1>3, IconSized DEF NoUpdate
  <2>3. a \in Nat /\ b \in Nat /\ c \in Nat /\ d \in Nat /\ e \in Nat /\ f \in Nat
    BY <2>1, <2>2 DEF Sized
  <2>4. Begun(w, size, 0 + 4)
    <3>1. size \in Nat
      BY <2>3
    <3>2. Begun(Header("update", size), size, 0)
      BY <1>1, <3>1, HeaderBegun
    <3> QED
      BY <2>1, <3>2, Extended
  <2> HIDE DEF w, a, b, c, d, e, f
  <2>5. Begun(w \o OptText(p, "id"), size, 0 + 4 + a)
    BY <2>1, <2>4, Extended
  <2>6. Begun(w \o OptText(p, "id") \o OptText(p, "group"), size, 0 + 4 + a + b)
    BY <2>1, <2>5, Extended
  <2>7. Begun(w \o OptText(p, "id") \o OptText(p, "group") \o OptText(p, "exec"),
              size, 0 + 4 + a + b + c)
    BY <2>1, <2>6, Extended
  <2>8. Begun(w \o OptText(p, "id") \o OptText(p, "group") \o OptText(p, "exec")
                \o OptText(p, "workingDir"), size, 0 + 4 + a + b + c + d)
    BY <2>1, <2>7, Extended
  <2>9. Begun(w \o OptText(p, "id") \o OptText(p, "group") \o OptText(p, "exec")
                \o OptText(p, "workingDir") \o OptText(p, "desc"),
              size, 0 + 4 + a + b + c + d + e)
    BY <2>1, <2>8, Extended
  <2>10. Begun(w \o OptText(p, "id") \o OptText(p, "group") \o OptText(p, "exec")
                 \o OptText(p, "workingDir") \o OptText(p, "desc") \o OptIcon(p),
               size, 0 + 4 + a + b + c + d + e + f)
    BY <2>2, <2>9, Extended
  <2>11. 0 + 4 + a + b + c + d + e + f = size
    BY <2>3
  <2>12. Good(w \o OptText(p, "id") \o OptText(p, "group") \o OptText(p, "exec")
                \o OptText(p, "workingDir") \o OptText(p, "desc") \o OptIcon(p))
    BY <2>10, <2>11, Finished
  <2>13. UpdateSize(p) = size
    BY DEF UpdateSize, a, b, c, d, e, f
  <2> QED
    BY <1>3, <2>12, <2>13 DEF SendUpdate, w
<1> QED
  BY <1>2, <1>3

LEMMA PacketFramed == ASSUME NEW p \in PDUs PROVE Good(Packet(p))
<1>1. p.cmd \in {"caps", "update", "delete", "deleteProvider", "associate"}
  BY DEF PDUs, Cmd
<1> QED
  BY <1>1, CapsFramed, UpdateFramed, DeleteFramed, DeleteProviderFramed, AssociateFramed, Zenon
  DEF Packet
-----------------------------------------------------------------------------
(* Reading is the inverse of writing *)

\* A reader that has read g and has the words w before it.
At(w, g) == [ok |-> TRUE, rest |-> w, got |-> g]

\* What a reader may have read: numbers and words, with their names.
Names == Texts \cup {"version", "flags", "window", "iconInfo", "iconSize", "image"}
Entry == Names \X (Nat \cup Seq(Nat))

\* The two parts of what is read.
LEMMA SplitWords ==
    ASSUME NEW w \in Seq(Nat), NEW t \in Seq(Nat)
    PROVE  /\ SubSeq(w \o t, 1, Len(w)) = w
           /\ SubSeq(w \o t, Len(w) + 1, Len(w \o t)) = t
<1> DEFINE s == w \o t
           a == SubSeq(s, 1, Len(w))
           b == SubSeq(s, Len(w) + 1, Len(s))
<1>1. /\ s \in Seq(Nat) /\ Len(s) = Len(w) + Len(t) /\ Len(w) \in Nat /\ Len(t) \in Nat
      /\ \A i \in 1 .. Len(w) : s[i] = w[i]
      /\ \A i \in 1 .. Len(t) : s[Len(w) + i] = t[i]
  <2>1. s \in Seq(Nat) /\ Len(s) = Len(w) + Len(t) /\ Len(w) \in Nat /\ Len(t) \in Nat
    BY JoinWords
  <2>2. ASSUME NEW i \in 1 .. Len(w) PROVE s[i] = w[i]
    BY <2>1, JoinWords
  <2>3. ASSUME NEW i \in 1 .. Len(t) PROVE s[Len(w) + i] = t[i]
    <3>1. Len(w) + i \in 1 .. Len(w) + Len(t) /\ ~(Len(w) + i <= Len(w)) /\ Len(w) + i - Len(w) = i
      BY <2>1
    <3> QED
      BY <3>1, JoinWords
  <2> QED
    BY <2>1, <2>2, <2>3
<1> HIDE DEF s
<1>2. \A i \in 1 .. Len(s) : s[i] \in Nat
  BY <1>1
<1>3. a \in Seq(Nat) /\ Len(a) = Len(w) /\ \A i \in 1 .. Len(w) : a[i] = s[1 + i - 1]
  <2>1. \A i \in 1 .. Len(w) : s[i] \in Nat
    BY <1>1, <1>2
  <2>2. /\ a \in Seq(Nat) /\ Len(a) = IF 1 <= Len(w) THEN Len(w) - 1 + 1 ELSE 0
        /\ \A i \in 1 .. Len(w) - 1 + 1 : a[i] = s[1 + i - 1]
    BY <1>1, <2>1, SubSeqProperties
  <2> QED
    BY <1>1, <2>2
<1>4. b \in Seq(Nat) /\ Len(b) = Len(t) /\ \A i \in 1 .. Len(t) : b[i] = s[Len(w) + i]
  <2>1. \A i \in Len(w) + 1 .. Len(s) : s[i] \in Nat
    BY <1>1, <1>2
  <2>2. /\ b \in Seq(Nat) /\ Len(b) = IF Len(w) + 1 <= Len(s) THEN Len(s) - (Len(w) + 1) + 1 ELSE 0
        /\ \A i \in 1 .. Len(s) - (Len(w) + 1) + 1 : b[i] = s[Len(w) + 1 + i - 1]
    BY <1>1, <2>1, SubSeqProperties
  <2>3. Len(s) - (Len(w) + 1) + 1 = Len(t) /\ \A i \in 1 .. Len(t) : Len(w) + 1 + i - 1 = Len(w) + i
    BY <1>1
  <2> QED
    BY <1>1, <2>2, <2>3
<1>5. a = w
  <2>1. \A i \in 1 .. Len(a) : a[i] = w[i]
    BY <1>1, <1>3
  <2> QED
    BY <1>3, <2>1, SeqEqual
<1>6. b = t
  <2>1. \A i \in 1 .. Len(b) : b[i] = t[i]
    BY <1>1, <1>4
  <2> QED
    BY <1>4, <2>1, SeqEqual
<1> QED
  BY <1>5, <1>6 DEF s

LEMMA TakeJoined ==
    ASSUME NEW w \in Seq(Nat), NEW t \in Seq(Nat), NEW g, NEW name, NEW value
    PROVE  Take(At(w \o t, g), Len(w), name, value) = At(t, Append(g, <<name, value>>))
<1>1. Len(w \o t) >= Len(w) /\ SubSeq(w \o t, Len(w) + 1, Len(w \o t)) = t
  <2>1. Len(w \o t) = Len(w) + Len(t) /\ Len(w) \in Nat /\ Len(t) \in Nat
    BY JoinWords
  <2> QED
    BY <2>1, SplitWords
<1> QED
  BY <1>1 DEF Take, At

LEMMA JoinFirst ==
    ASSUME NEW w \in Seq(Nat), NEW t \in Seq(Nat)
    PROVE  /\ \A i \in 1 .. Len(w) : (w \o t)[i] = w[i]
           /\ w # <<>> => Head(w \o t) = w[1]
<1>1. /\ w \o t \in Seq(Nat) /\ Len(w \o t) = Len(w) + Len(t) /\ Len(w) \in Nat /\ Len(t) \in Nat
      /\ \A i \in 1 .. Len(w) : (w \o t)[i] = w[i]
  BY JoinWords
<1>2. ASSUME w # <<>> PROVE Head(w \o t) = w[1]
  <2>1. Len(w) > 0
    BY <1>2
  <2> QED
    BY <1>1, <2>1
<1> QED
  BY <1>1, <1>2

LEMMA U16Read ==
    ASSUME NEW n \in Nat, NEW t \in Seq(Nat), NEW g, NEW name
    PROVE  /\ ReadUINT16(At(U16(n) \o t, g), name) = At(t, Append(g, <<name, n>>))
           /\ Head(U16(n) \o t) = n
<1>0. U16(n) \in Seq(Nat) /\ Len(U16(n)) = 1 /\ U16(n)[1] = n /\ U16(n) # <<>>
  BY DEF U16
<1>1. PICK w \in Seq(Nat) : w = U16(n) /\ Len(w) = 1 /\ w[1] = n /\ w # <<>>
  BY <1>0, Zenon
<1>2. (w \o t)[1] = n /\ Head(w \o t) = (w \o t)[1]
  <2>1. 1 \in 1 .. Len(w) /\ w # <<>>
    BY <1>1
  <2>2. /\ \A i \in 1 .. Len(w) : (w \o t)[i] = w[i]
        /\ w # <<>> => Head(w \o t) = w[1]
    BY JoinFirst
  <2>3. (w \o t)[1] = w[1] /\ Head(w \o t) = w[1]
    BY <2>1, <2>2, Zenon
  <2> QED
    BY <1>1, <2>3
<1>3. Take(At(w \o t, g), Len(w), name, n) = At(t, Append(g, <<name, n>>))
  BY TakeJoined
<1>4. At(w \o t, g).rest = w \o t
  BY DEF At
<1>5. ReadUINT16(At(w \o t, g), name) = At(t, Append(g, <<name, n>>))
  BY <1>1, <1>2, <1>3, <1>4, Zenon DEF ReadUINT16
<1> QED
  BY <1>1, <1>2, <1>5

\* The number that two words stand for.
Wide(w) == w[1] + 65536 * w[2]

LEMMA TwoWordsRead ==
    ASSUME NEW w \in Seq(Nat), NEW t \in Seq(Nat), NEW g, NEW name
    PROVE  Len(w) = 2 =>
               ReadUINT32(At(w \o t, g), name) = At(t, Append(g, <<name, Wide(w)>>))
<1>1. Take(At(w \o t, g), Len(w), name, Wide(w)) = At(t, Append(g, <<name, Wide(w)>>))
  BY TakeJoined
<1>2. At(w \o t, g).rest = w \o t
  BY DEF At
<1>3. ASSUME Len(w) = 2 PROVE (w \o t)[1] = w[1] /\ (w \o t)[2] = w[2]
  <2>1. 1 \in 1 .. Len(w) /\ 2 \in 1 .. Len(w)
    BY <1>3
  <2> QED
    BY <2>1, JoinFirst
<1>4. ASSUME Len(w) = 2 PROVE Wide(w \o t) = Wide(w)
  <2>1. (w \o t)[1] = w[1] /\ (w \o t)[2] = w[2]
    BY <1>3, <1>4
  <2> QED
    BY ONLY <2>1 DEF Wide
<1>5. ReadUINT32(At(w \o t, g), name) = Take(At(w \o t, g), 2, name, Wide(w \o t))
  BY <1>2 DEF ReadUINT32, Wide
<1> QED
  BY <1>1, <1>4, <1>5

LEMMA U32Read ==
    ASSUME NEW n \in Nat, NEW t \in Seq(Nat), NEW g, NEW name
    PROVE  ReadUINT32(At(U32(n) \o t, g), name) = At(t, Append(g, <<name, n>>))
<1>1. U32(n) \in Seq(Nat) /\ Len(U32(n)) = 2 /\ Wide(U32(n)) = n
  <2>1. U32(n)[1] + 65536 * U32(n)[2] = n
    BY U32Words
  <2>2. U32(n) \in Seq(Nat) /\ Len(U32(n)) = 2
    <3>1. n % 65536 \in Nat /\ n \div 65536 \in Nat
      OBVIOUS
    <3> QED
      BY <3>1 DEF U32
  <2>3. Wide(U32(n)) = n
    BY <2>1 DEF Wide
  <2> QED
    BY <2>2, <2>3
<1> QED
  BY <1>1, TwoWordsRead

LEMMA BytesRead ==
    ASSUME NEW w \in Seq(Nat), NEW n \in Nat, NEW t \in Seq(Nat), NEW g, NEW name
    PROVE  n \div 2 = Len(w) => ReadBYTES(At(w \o t, g), n, name) = At(t, Append(g, <<name, w>>))
<1>1. SubSeq(w \o t, 1, Len(w)) = w
  BY SplitWords
<1>2. Take(At(w \o t, g), Len(w), name, w) = At(t, Append(g, <<name, w>>))
  BY TakeJoined
<1>3. At(w \o t, g).rest = w \o t
  BY DEF At
<1> QED
  BY <1>1, <1>2, <1>3 DEF ReadBYTES

Words == Seq(Nat)
Cat(a, b) == a \o b
LEMMA CatWords ==
  ASSUME NEW a \in Words, NEW b \in Words PROVE Cat(a, b) \in Words
BY ConcatProperties DEF Words, Cat
LEMMA CatLen ==
    ASSUME NEW a \in Words, NEW b \in Words
    PROVE  Len(Cat(a, b)) = Len(a) + Len(b) /\ Len(a) \in Nat /\ Len(b) \in Nat
  BY ConcatProperties DEF Words, Cat

LEMMA CatCat ==
  ASSUME NEW a \in Words, NEW b \in Words, NEW c \in Words
  PROVE  Cat(Cat(a, b), c) = Cat(a, Cat(b, c))
BY ConcatAssociative DEF Words, Cat
LEMMA Regroup3 ==
    ASSUME NEW h \in Words, NEW a \in Words, NEW b \in Words, NEW c \in Words
    PROVE  Cat(Cat(Cat(h, a), b), c) = Cat(h, Cat(a, Cat(b, c)))
BY CatWords, CatCat
LEMMA Regroup4 ==
    ASSUME NEW h \in Words, NEW a \in Words, NEW b \in Words, NEW c \in Words, NEW d \in Words
    PROVE  Cat(Cat(Cat(Cat(h, a), b), c), d) = Cat(h, Cat(a, Cat(b, Cat(c, d))))
<1>1. PICK y \in Words : y = Cat(h, a)
  BY CatWords
<1>2. PICK x \in Words : x = Cat(b, Cat(c, d))
  BY CatWords
<1>3. Cat(Cat(Cat(y, b), c), d) = Cat(y, x)
  BY <1>2, Regroup3
<1>4. Cat(Cat(h, a), x) = Cat(h, Cat(a, x))
  BY CatCat
<1> QED
  BY <1>1, <1>2, <1>3, <1>4
LEMMA CharsWords ==
    ASSUME NEW p \in PDUs, NEW f \in Texts
    PROVE  /\ p.text[f] \in Nat /\ p.text[f] \div 2 \in Nat
           /\ Chars(f, p.text[f]) \in Seq(Nat)
           /\ Len(Chars(f, p.text[f])) = p.text[f] \div 2
           /\ Letters(p, f) \in Entry
<1>1. p.text[f] \in Even
  BY DEF PDUs
<1>2. p.text[f] \in Nat /\ p.text[f] \div 2 \in Nat
  BY <1>1 DEF Even
<1>3. Letter[f] \in Nat
  BY DEF Texts, Letter
<1>4. Chars(f, p.text[f]) \in Seq(Nat) /\ Len(Chars(f, p.text[f])) = p.text[f] \div 2
  BY <1>2, <1>3 DEF Chars
<1>5. f \in Names
  BY DEF Names
<1>6. Letters(p, f) \in Entry
  BY <1>4, <1>5 DEF Letters, Entry
<1> QED
  BY <1>2, <1>4, <1>6

\* A text that the plugin takes.
Fits(p, f, required) == p.text[f] + 2 <= MaxString /\ (required => p.text[f] > 0)

LEMMA AtOther ==
    ASSUME NEW w, NEW s, NEW g PROVE [At(w, g) EXCEPT !.rest = s] = At(s, g)
<1> DEFINE D == {"ok", "rest", "got"}
<1>1. [At(w, g) EXCEPT !.rest = s]
          = [i \in DOMAIN At(w, g) |-> IF i = "rest" THEN s ELSE At(w, g)[i]]
  BY Zenon
<1>2. DOMAIN At(w, g) = D
  BY DEF At
<1>3. At(s, g) = [i \in D |-> At(s, g)[i]]
  BY DEF At
<1>4. ASSUME NEW i \in D PROVE At(s, g)[i] = IF i = "rest" THEN s ELSE At(w, g)[i]
  <2>1. At(s, g)["got"] = At(w, g)["got"] /\ At(s, g)["rest"] = s 
    BY DEF At
  <2>2. At(s, g)["ok"] = TRUE /\ At(w, g)["ok"] = TRUE
    BY DEF At
  <2> QED
    BY <2>1, <2>2
<1>5. [i \in D |-> At(s, g)[i]] = [i \in D |-> IF i = "rest" THEN s ELSE At(w, g)[i]]
  BY <1>4
<1> HIDE DEF D
<1> QED
  BY <1>1, <1>2, <1>3, <1>5

LEMMA StringRead ==
    ASSUME NEW n \in Nat, NEW c \in Seq(Nat), NEW t \in Seq(Nat), NEW g, NEW f,
           NEW required \in BOOLEAN
    PROVE  n \div 2 = Len(c) =>
               ReadSTRING(At(U16(n) \o (c \o t), g), f, required)
                   = IF n + 2 > MaxString \/ (n = 0 /\ required) THEN Fail
                     ELSE At(t, Append(g, <<f, c>>))
<1>0. SUFFICES ASSUME n \div 2 = Len(c)
             PROVE  ReadSTRING(At(U16(n) \o (c \o t), g), f, required)
                        = IF n + 2 > MaxString \/ (n = 0 /\ required) THEN Fail
                          ELSE At(t, Append(g, <<f, c>>))
  OBVIOUS
<1>1. ReadBYTES(At(c \o t, g), n, f) = At(t, Append(g, <<f, c>>))
  BY <1>0, BytesRead
<1>2. PICK s \in Seq(Nat) : s = c \o t
  BY JoinWords
<1>3. PICK r : r = At(U16(n) \o s, g)
  OBVIOUS
<1>4. ReadUINT16(r, f) = At(s, Append(g, <<f, n>>)) /\ Head(U16(n) \o s) = n
  <2>1. ReadUINT16(r, f) = At(s, Append(g, <<f, n>>))
    BY <1>3, U16Read
  <2>2. Head(U16(n) \o s) = n
    BY U16Read
  <2> QED
    BY <2>1, <2>2
<1>5. Head(r.rest) = n
  BY <1>3, <1>4 DEF At
<1>6. ReadUINT16(r, f).ok = TRUE /\ ReadUINT16(r, f).rest = s
  BY <1>4 DEF At
<1>7. [r EXCEPT !.rest = s] = At(s, g)
  BY <1>3, AtOther
<1>8. ReadBYTES([r EXCEPT !.rest = ReadUINT16(r, f).rest], n, f) = At(t, Append(g, <<f, c>>))
  BY <1>1, <1>2, <1>6, <1>7
<1>9. ReadSTRING(r, f, required)
          = IF n + 2 > MaxString \/ (n = 0 /\ required) THEN Fail ELSE At(t, Append(g, <<f, c>>))
  BY <1>5, <1>6, <1>8, Zenon DEF ReadSTRING
<1> QED
  BY <1>2, <1>3, <1>9

LEMMA TextRead ==
    ASSUME NEW p \in PDUs, NEW f \in Texts, NEW t \in Seq(Nat), NEW g \in Seq(Entry),
           NEW required \in BOOLEAN
    PROVE  ReadSTRING(At(Text(p, f) \o t, g), f, required)
               = IF Fits(p, f, required) THEN At(t, g \o <<Letters(p, f)>>) ELSE Fail
<1> DEFINE n == p.text[f]
           c == Chars(f, n)
<1>1. /\ n \in Nat /\ c \in Seq(Nat) /\ n \div 2 = Len(c) /\ U16(n) \in Seq(Nat)
      /\ Letters(p, f) \in Entry /\ Letters(p, f) = <<f, c>>
  BY CharsWords DEF U16, Letters
<1>2. Text(p, f) \o t = U16(n) \o (c \o t)
  <2>1. Text(p, f) = U16(n) \o c
    BY DEF Text
  <2>2. c \in Words /\ U16(n) \in Words /\ t \in Words
    BY <1>1 DEF Words
  <2> HIDE DEF n, c
  <2>3. Cat(Cat(U16(n), c), t) = Cat(U16(n), Cat(c, t))
    BY <2>2, CatCat
  <2> QED
    BY <2>1, <2>3, Zenon DEF Cat
<1>3. Append(g, <<f, c>>) = g \o <<Letters(p, f)>>
  BY <1>1, AppendIsConcat
<1>4. Fits(p, f, required) <=> ~(n + 2 > MaxString \/ (n = 0 /\ required))
  BY <1>1, WireAssumption DEF Fits
<1> HIDE DEF n, c
<1>5. ReadSTRING(At(U16(n) \o (c \o t), g), f, required)
          = IF n + 2 > MaxString \/ (n = 0 /\ required) THEN Fail ELSE At(t, Append(g, <<f, c>>))
  <2>1. n \in Nat /\ c \in Seq(Nat) /\ n \div 2 = Len(c)
    BY <1>1
  <2>2. n \div 2 = Len(c) =>
            ReadSTRING(At(U16(n) \o (c \o t), g), f, required)
                = IF n + 2 > MaxString \/ (n = 0 /\ required) THEN Fail
                  ELSE At(t, Append(g, <<f, c>>))
    BY <2>1, StringRead
  <2> QED
    BY <2>1, <2>2
<1> QED
  BY <1>2, <1>3, <1>4, <1>5

LEMMA ReadableFits ==
    ASSUME NEW p \in PDUs, NEW f \in FieldsOf[p.cmd], NEW required \in BOOLEAN,
           p.cmd # "caps", required => f \notin {"group", "workingDir"}
    PROVE  Readable(p) => (Has(p.flags, Field[f]) => Fits(p, f, required))
<1> SUFFICES ASSUME Readable(p), Has(p.flags, Field[f]) PROVE Fits(p, f, required)
  OBVIOUS
<1>1. f \in Carried(p)
  BY DEF Carried
<1>2. required => f \in Needed(p)
  BY <1>1 DEF Needed
<1> QED
  BY <1>1, <1>2 DEF Readable, Fits

\* Of p, r has read g and has the words t before it; or it has failed, for a reason.
Come(p, r, t, g) == r = At(t, g) \/ (r = Fail /\ ~Readable(p))

\* What may have been read of p, its flags first.
Gots(p) == {g \in Seq(Entry) : g # <<>> /\ g[1][2] = p.flags}

LEMMA GotsGrow ==
    ASSUME NEW p, NEW g \in Gots(p), NEW h \in Seq(Entry)
    PROVE  g \o h \in Gots(p)
<1>1. g \in Seq(Entry) /\ g # <<>> /\ g[1][2] = p.flags /\ Len(g) \in Nat /\ Len(g) > 0
  BY DEF Gots
<1>2. /\ g \o h \in Seq(Entry) /\ Len(g \o h) = Len(g) + Len(h)
      /\ \A i \in 1 .. Len(g) + Len(h) : (g \o h)[i] = IF i <= Len(g) THEN g[i] ELSE h[i - Len(g)]
  BY <1>1, ConcatProperties, Zenon
<1>3. (g \o h)[1] = g[1] /\ g \o h # <<>>
  BY <1>1, <1>2
<1> QED
  BY <1>1, <1>2, <1>3 DEF Gots

LEMMA OptRead ==
    ASSUME NEW p \in PDUs, NEW f \in FieldsOf[p.cmd], NEW required \in BOOLEAN,
           p.cmd # "caps", required => f \notin {"group", "workingDir"},
           NEW t \in Words, NEW g \in Gots(p), NEW r, Come(p, r, Cat(OptText(p, f), t), g)
    PROVE  /\ Come(p, Flagged(r, f, required), t, g \o OptLetters(p, f))
           /\ g \o OptLetters(p, f) \in Gots(p)
<1> DEFINE has == Has(p.flags, Field[f])
           fits == Fits(p, f, required)
           Goal == Come(p, Flagged(r, f, required), t, g \o OptLetters(p, f))
<1>0. f \in Texts /\ (Readable(p) => (has => fits))
  <2>1. p.cmd \in DOMAIN Cmd
    BY DEF PDUs
  <2>2. f \in Texts
    BY <2>1 DEF Cmd, FieldsOf, Texts
  <2> QED
    BY <2>2, ReadableFits
<1>1. g \in Seq(Entry) /\ g[1][2] = p.flags /\ t \in Seq(Nat)
  BY DEF Gots, Words
<1>2. ASSUME r = Fail, ~Readable(p) PROVE Goal
  <2>1. Flagged(r, f, required) = Fail
    BY <1>2 DEF Flagged, Fail
  <2> QED
    BY <1>2, <2>1 DEF Come
<1>3. ASSUME r = At(OptText(p, f) \o t, g) PROVE Goal
  <2>1. r.ok = TRUE /\ r.got = g
    BY <1>3 DEF At
  <2>2. CASE has
    <3>1. OptText(p, f) = Text(p, f) /\ OptLetters(p, f) = <<Letters(p, f)>>
      BY <2>2 DEF OptText, OptLetters
    <3>2. Flagged(r, f, required) = ReadSTRING(r, f, required)
      BY <1>1, <2>1, <2>2 DEF Flagged
    <3>3. Flagged(r, f, required) = IF fits THEN At(t, g \o OptLetters(p, f)) ELSE Fail
      BY <1>0, <1>1, <1>3, <3>1, <3>2, TextRead
    <3> HIDE DEF has, fits
    <3> QED
      BY <1>0, <2>2, <3>3 DEF Come
  <2>3. CASE ~has
    <3>1. OptText(p, f) = <<>> /\ OptLetters(p, f) = <<>>
      BY <2>3 DEF OptText, OptLetters
    <3>2. Flagged(r, f, required) = r
      BY <1>1, <2>1, <2>3 DEF Flagged
    <3>3. <<>> \o t = t /\ g \o <<>> = g
      BY <1>1, ConcatEmptySeq
    <3> QED
      BY <1>3, <3>1, <3>2, <3>3 DEF Come
  <2> QED
    BY <2>2, <2>3
<1>4. OptLetters(p, f) \in Seq(Entry)
  BY <1>0, CharsWords DEF OptLetters
<1>5. Goal
  <2> HIDE DEF Goal
  <2> QED
    BY <1>2, <1>3 DEF Come, Cat
<1> QED
  BY <1>4, <1>5, GotsGrow

LEMMA OptTextWords == ASSUME NEW p \in PDUs, NEW f \in Texts PROVE OptText(p, f) \in Seq(Nat)
<1>1. U16(p.text[f]) \in Seq(Nat)
  BY CharsWords DEF U16
<1> QED
  BY <1>1, CharsWords, JoinWords DEF OptText, Text

LEMMA U32IsWords == ASSUME NEW n \in Nat PROVE U32(n) \in Seq(Nat) /\ Len(U32(n)) = 2
<1>1. n % 65536 \in Nat /\ n \div 65536 \in Nat
  OBVIOUS
<1> QED
  BY <1>1 DEF U32

LEMMA NumberRead ==
    ASSUME NEW n \in Nat, NEW t \in Words, NEW g, NEW name
    PROVE  ReadUINT32(At(Cat(U32(n), t), g), name) = At(t, Append(g, <<name, n>>))
  BY U32Read DEF Words, Cat

LEMMA FirstStays ==
    ASSUME NEW S, NEW s \in Seq(S), s # <<>>, NEW e
    PROVE  Append(s, e)[1] = s[1]
  OBVIOUS

LEMMA HeaderRead ==
    ASSUME NEW cmd \in DOMAIN Cmd, NEW size \in Nat, NEW t \in Words
    PROVE  /\ Cat(Header(cmd, size), t) # <<>>
           /\ SubSeq(Cat(Header(cmd, size), t), 5, Len(Cat(Header(cmd, size), t))) = t
           /\ \E g : /\ ReadAppListHeader(Cat(Header(cmd, size), t)) = At(t, g)
                     /\ g[1][2] = Cmd[cmd]
<1> DEFINE w == Cat(Header(cmd, size), t)
           g1 == Append(<<>>, <<"cmd", Cmd[cmd]>>)
           g2 == Append(g1, <<"length", HeaderSize + size>>)
<1>1. Cmd[cmd] \in Nat /\ HeaderSize + size \in Nat
  BY DEF Cmd, HeaderSize
<1>2. PICK a \in Words : a = U32(Cmd[cmd]) /\ Len(a) = 2
  BY <1>1, U32IsWords DEF Words
<1>3. PICK b \in Words : b = U32(HeaderSize + size) /\ Len(b) = 2
  BY <1>1, U32IsWords DEF Words
<1>4. PICK x \in Words : x = Cat(b, t)
  BY CatWords
<1>5. PICK h \in Words : h = Cat(a, b)
  BY CatWords
<1>6. Header(cmd, size) = h
  BY <1>2, <1>3, <1>5 DEF Header, Cat
<1>7. w = Cat(h, t) /\ w = Cat(a, x)
  BY <1>4, <1>5, <1>6, CatCat
<1> HIDE DEF w
<1>8. ReadUINT32(At(w, <<>>), "cmd") = At(x, g1)
  <2>1. PICK e : e = <<>>
    OBVIOUS
  <2>2. ReadUINT32(At(Cat(U32(Cmd[cmd]), x), e), "cmd") = At(x, Append(e, <<"cmd", Cmd[cmd]>>))
    BY <1>1, NumberRead
  <2> QED
    BY <1>2, <1>7, <2>1, <2>2, Zenon
<1>9. ReadUINT32(At(x, g1), "length") = At(t, g2)
  <2> HIDE DEF g1
  <2>1. ReadUINT32(At(Cat(U32(HeaderSize + size), t), g1), "length") = At(t, g2)
    BY <1>1, NumberRead
  <2> QED
    BY <1>3, <1>4, <2>1
<1>10. g2[1][2] = Cmd[cmd]
  <2>1. g1 \in Seq({<<"cmd", Cmd[cmd]>>}) /\ g1 # <<>> /\ g1[1] = <<"cmd", Cmd[cmd]>>
    OBVIOUS
  <2> HIDE DEF g1
  <2>2. g2[1] = g1[1]
    BY <2>1, FirstStays, Zenon
  <2> QED
    BY <2>1, <2>2
<1> HIDE DEF g1, g2
<1>11. ReadAppListHeader(w) = At(t, g2)
  BY <1>8, <1>9 DEF ReadAppListHeader, Start, At
<1>12. Len(h) = 4
  <2>1. Len(h) = Len(a) + Len(b)
    BY <1>5, CatLen
  <2> QED
    BY <1>2, <1>3, <2>1
<1>13. SubSeq(w, 5, Len(w)) = t
  <2>1. SubSeq(h \o t, Len(h) + 1, Len(h \o t)) = t
    BY SplitWords DEF Words
  <2> QED
    BY <1>7, <1>12, <2>1 DEF Cat
<1>14. w # <<>>
  <2>1. Len(w) = Len(h) + Len(t) /\ Len(t) \in Nat
    BY <1>7, CatLen
  <2> QED
    BY <1>12, <2>1
<1> QED
  BY <1>10, <1>11, <1>13, <1>14 DEF w

LEMMA FlagsRead ==
    ASSUME NEW p \in PDUs, NEW t \in Words, NEW required,
           Readable(p) => HasAll(p.flags, required)
    PROVE  /\ Come(p, ReadFlags(Cat(U32(p.flags), t), required), t, <<<<"flags", p.flags>>>>)
           /\ <<<<"flags", p.flags>>>> \in Gots(p)
<1> DEFINE g == <<<<"flags", p.flags>>>>
           w == Cat(U32(p.flags), t)
           r == ReadUINT32(Start(w), "flags")
<1>1. p.flags \in Nat
  BY DEF PDUs
<1>2. <<"flags", p.flags>> \in Entry
  BY <1>1 DEF Entry, Names
<1>3. g \in Seq(Entry) /\ g # <<>> /\ Len(g) = 1 /\ g[1][2] = p.flags /\ Append(<<>>, <<"flags", p.flags>>) = g
  BY <1>2
<1>4. g \in Gots(p)
  BY <1>3 DEF Gots
<1>5. Start(w) = At(w, <<>>)
  BY DEF Start, At
<1>6. ReadUINT32(At(w, <<>>), "flags") = At(t, Append(<<>>, <<"flags", p.flags>>))
  BY <1>1, U32Read DEF Cat, Words
<1> HIDE DEF g, w
<1>7. r = At(t, g)
  BY <1>3, <1>5, <1>6
<1> HIDE DEF r
<1>8. r.ok = TRUE /\ r.got = g /\ Last(r) = p.flags
  BY <1>3, <1>7 DEF At, Last
<1>9. ReadFlags(w, required) = IF HasAll(p.flags, required) THEN r ELSE Fail
  BY <1>8 DEF ReadFlags, r
<1> QED
  BY <1>4, <1>7, <1>9 DEF Come, g, w

LEMMA CatEmpty == ASSUME NEW a \in Words PROVE Cat(a, <<>>) = a /\ <<>> \in Words
  BY ConcatEmptySeq DEF Words, Cat

LEMMA OptWords ==
    ASSUME NEW p \in PDUs, NEW f \in Texts
    PROVE  OptText(p, f) \in Words /\ OptSize(p, f) \in Nat
<1>1. OptSize(p, f) \in Nat
  BY CharsWords DEF OptSize
<1> QED
  BY <1>1, OptTextWords DEF Words

\* An older server's unique id is sent and left alone.
Left(p) == IF p.cmd = "caps" /\ p.version < 4 THEN Text(p, "uniqueId") ELSE <<>>

\* The packet of p is read for what p says, or refused for a reason.
Told(p, Reader(_)) ==
    \E t \in Words, size \in Nat :
        /\ Packet(p) = Cat(Header(p.cmd, size), t)
        /\ Come(p, Reader(t), Left(p), Said(p))

LEMMA HeaderWords ==
    ASSUME NEW cmd \in DOMAIN Cmd, NEW size \in Nat PROVE Header(cmd, size) \in Words
<1>1. Cmd[cmd] \in Nat /\ HeaderSize + size \in Nat
  BY DEF Cmd, HeaderSize
<1>2. U32(Cmd[cmd]) \in Words /\ U32(HeaderSize + size) \in Words
  BY <1>1, U32IsWords DEF Words
<1> QED
  BY <1>2, CatWords DEF Header, Cat

LEMMA DeleteTold ==
    ASSUME NEW p \in PDUs, p.cmd = "delete", Packet(p) # Refused
    PROVE  Told(p, ReadDelete)
<1> DEFINE size == 4 + OptSize(p, "id") + OptSize(p, "group")
           h == Header("delete", size)
           f == U32(p.flags)
           a == OptText(p, "id")
           b == OptText(p, "group")
           t == Cat(f, Cat(a, b))
           g0 == <<<<"flags", p.flags>>>>
           ga == g0 \o OptLetters(p, "id")
           gb == ga \o OptLetters(p, "group")
           r0 == ReadFlags(t, {Field.id})
           ra == Flagged(r0, "id", TRUE)
           rb == Flagged(ra, "group", FALSE)
<1>1. p.flags \in Nat /\ "id" \in Texts /\ "group" \in Texts /\ "delete" \in DOMAIN Cmd
  BY DEF PDUs, Texts, Cmd
<1>2. /\ f \in Words /\ a \in Words /\ b \in Words
      /\ OptSize(p, "id") \in Nat /\ OptSize(p, "group") \in Nat
  BY <1>1, OptWords, U32IsWords DEF Words
<1>3. size \in Nat
  BY <1>2
<1>4. h \in Words
  BY <1>1, <1>3, HeaderWords
<1>5. Packet(p) = h \o f \o a \o b
  BY DEF Packet, SendDelete
<1>6. Readable(p) => HasAll(p.flags, {Field.id})
  BY DEF Readable, Requires, Field
<1>7. Said(p) = gb /\ ReadDelete(t) = rb
  BY DEF Said, ReadDelete
<1>8. "id" \in FieldsOf[p.cmd] /\ "group" \in FieldsOf[p.cmd] /\ p.cmd # "caps"
  BY DEF FieldsOf
<1>9. ASSUME NEW x \in Words
      PROVE  Come(p, ReadFlags(Cat(f, x), {Field.id}), x, g0) /\ g0 \in Gots(p)
  BY <1>6, FlagsRead
<1> HIDE DEF size, h, f, a, b, g0, r0
<1>10. Packet(p) = Cat(h, t) /\ t \in Words
  <2>1. Packet(p) = Cat(Cat(Cat(h, f), a), b)
    BY <1>5 DEF Cat
  <2> QED
    BY <1>2, <1>4, <2>1, Regroup3, CatWords
<1>11. Come(p, r0, Cat(a, b), g0) /\ g0 \in Gots(p) /\ Cat(a, b) \in Words
  BY <1>2, <1>9, CatWords DEF r0
<1> HIDE DEF t
<1>12. Come(p, ra, b, ga) /\ ga \in Gots(p)
  BY <1>2, <1>8, <1>11, OptRead DEF a
<1> HIDE DEF ra, ga
<1>13. Come(p, rb, <<>>, gb)
  BY <1>2, <1>8, <1>12, OptRead, CatEmpty DEF b
<1> QED
  BY <1>3, <1>7, <1>8, <1>10, <1>13 DEF Told, Left, h

LEMMA TwoEntries ==
    ASSUME NEW e \in Entry, NEW l \in Entry
    PROVE  /\ <<e, l>> \in Seq(Entry)
           /\ <<e, l>> = <<e>> \o <<l>> /\ <<e, l>> = Append(<<e>>, l)
           /\ <<e, l>> \o <<>> = <<e, l>>
<1> DEFINE s == <<e, l>>
           t == Append(<<e>>, l)
<1>1. s \in Seq(Entry) /\ <<e>> \in Seq(Entry) /\ Len(s) = 2 /\ s[1] = e /\ s[2] = l
  OBVIOUS
<1>2. t \in Seq(Entry) /\ Len(t) = 2 /\ t[1] = e /\ t[2] = l
  OBVIOUS
<1>3. t = <<e>> \o <<l>>
  BY <1>1, AppendIsConcat
<1> HIDE DEF s, t
<1>4. s = t
  <2>1. \A i \in 1 .. Len(s) : s[i] = t[i]
    BY <1>1, <1>2
  <2> QED
    BY <1>1, <1>2, <2>1, SeqEqual
<1>5. s \o <<>> = s
  BY <1>1, ConcatEmptySeq
<1> QED
  BY <1>1, <1>3, <1>4, <1>5 DEF s, t
LEMMA OneMore ==
    ASSUME NEW s \in Seq(Entry), NEW m \in Entry
    PROVE  /\ Append(s, m) \in Seq(Entry) /\ Len(Append(s, m)) = Len(s) + 1
           /\ Append(s, m)[Len(s) + 1] = m
           /\ \A i \in 1 .. Len(s) : Append(s, m)[i] = s[i]
  BY AppendProperties

LEMMA AppendMore ==
    ASSUME NEW g \in Seq(Entry), NEW s \in Seq(Entry), NEW m \in Entry
    PROVE  Append(g \o s, m) = g \o Append(s, m) /\ Append(s, m) \in Seq(Entry)
<1>1. g \o s \in Seq(Entry) /\ <<m>> \in Seq(Entry) /\ Append(s, m) \in Seq(Entry)
  BY ConcatProperties
<1>2. Append(g \o s, m) = (g \o s) \o <<m>>
  BY <1>1, AppendIsConcat
<1>3. Append(s, m) = s \o <<m>>
  BY AppendIsConcat
<1>4. (g \o s) \o <<m>> = g \o (s \o <<m>>)
  BY <1>1, ConcatAssociative
<1> QED
  BY <1>1, <1>2, <1>3, <1>4

LEMMA ThreeEntries ==
    ASSUME NEW g \in Seq(Entry), NEW e \in Entry, NEW l \in Entry, NEW m \in Entry
    PROVE  Append(Append(Append(g, e), l), m) = g \o <<e, l, m>>
<1>1. PICK u \in Seq(Entry) : u = <<e, l>>
  BY TwoEntries
<1>2. <<e>> \in Seq(Entry) /\ Append(<<e>>, l) = u
  <2>1. Append(<<e>>, l) = <<e, l>>
    BY TwoEntries
  <2> QED
    BY <1>1, <2>1
<1>3. Append(u, m) = <<e, l, m>>
  <2> DEFINE s == <<e, l, m>>
             t == Append(u, m)
  <2>1. u \in Seq(Entry) /\ Len(u) = 2 /\ u[1] = e /\ u[2] = l
    BY <1>1
  <2>2. s \in Seq(Entry) /\ Len(s) = 3 /\ s[1] = e /\ s[2] = l /\ s[3] = m
    OBVIOUS
  <2>3. t \in Seq(Entry) /\ Len(t) = 3 /\ t[1] = e /\ t[2] = l /\ t[3] = m
    <3>1. t \in Seq(Entry) /\ Len(t) = Len(u) + 1
      BY OneMore
    <3>2. t[Len(u) + 1] = m /\ \A i \in 1 .. Len(u) : t[i] = u[i]
      BY OneMore
    <3> HIDE DEF t
    <3>3. t[3] = m /\ t[1] = u[1] /\ t[2] = u[2]
      BY <2>1, <3>2
    <3> QED
      BY <2>1, <3>1, <3>3
  <2> HIDE DEF s, t
  <2>4. \A i \in 1 .. Len(s) : s[i] = t[i]
    BY <2>2, <2>3
  <2>5. s = t
    BY <2>2, <2>3, <2>4, SeqEqual
  <2> QED
    BY <2>5 DEF s, t
<1>4. Append(g, e) = g \o <<e>>
  BY AppendIsConcat
<1>5. Append(g \o <<e>>, l) = g \o u
  BY <1>2, AppendMore
<1>6. Append(g \o u, m) = g \o Append(u, m)
  BY AppendMore
<1> QED
  BY <1>3, <1>4, <1>5, <1>6

LEMMA AssociateTold ==
    ASSUME NEW p \in PDUs, p.cmd = "associate", Packet(p) # Refused
    PROVE  Told(p, ReadAssociate)
<1> DEFINE size == 8 + OptSize(p, "id") + OptSize(p, "group") + OptSize(p, "exec") + OptSize(p, "desc")
           h == Header("associate", size)
           f == U32(p.flags)
           w == U32(p.window)
           a == OptText(p, "id")
           b == OptText(p, "group")
           c == OptText(p, "exec")
           d == OptText(p, "desc")
           x == Cat(a, Cat(b, Cat(c, d)))
           t == Cat(f, Cat(w, x))
           g0 == <<<<"flags", p.flags>>>>
           gw == <<<<"flags", p.flags>>, <<"window", p.window>>>>
           ga == gw \o OptLetters(p, "id")
           gb == ga \o OptLetters(p, "group")
           gc == gb \o OptLetters(p, "exec")
           gd == gc \o OptLetters(p, "desc")
           r0 == ReadFlags(t, {Field.id, Field.windowId})
           rw == IF r0.ok THEN ReadUINT32(r0, "window") ELSE Fail
           ra == Flagged(rw, "id", TRUE)
           rb == Flagged(ra, "group", FALSE)
           rc == Flagged(rb, "exec", TRUE)
           rd == Flagged(rc, "desc", TRUE)
<1>1. /\ p.flags \in Nat /\ p.window \in Nat /\ "associate" \in DOMAIN Cmd
      /\ "id" \in Texts /\ "group" \in Texts /\ "exec" \in Texts /\ "desc" \in Texts
  BY DEF PDUs, Texts, Cmd
<1>2. /\ f \in Words /\ w \in Words /\ a \in Words /\ b \in Words /\ c \in Words /\ d \in Words
      /\ OptSize(p, "id") \in Nat /\ OptSize(p, "group") \in Nat
      /\ OptSize(p, "exec") \in Nat /\ OptSize(p, "desc") \in Nat
  BY <1>1, OptWords, U32IsWords DEF Words
<1>3. size \in Nat
  BY <1>2
<1>4. h \in Words
  BY <1>1, <1>3, HeaderWords
<1>5. Packet(p) = h \o f \o w \o a \o b \o c \o d
  BY DEF Packet, SendAssociate
<1>6. Readable(p) => HasAll(p.flags, {Field.id, Field.windowId})
  BY DEF Readable, Requires, Field
<1>7. Said(p) = gd /\ ReadAssociate(t) = rd
  BY DEF Said, ReadAssociate
<1>8. /\ "id" \in FieldsOf[p.cmd] /\ "group" \in FieldsOf[p.cmd] /\ "exec" \in FieldsOf[p.cmd]
      /\ "desc" \in FieldsOf[p.cmd] /\ p.cmd # "caps"
  BY DEF FieldsOf
<1>9. ASSUME NEW y \in Words
      PROVE  Come(p, ReadFlags(Cat(f, y), {Field.id, Field.windowId}), y, g0) /\ g0 \in Gots(p)
  BY <1>6, FlagsRead
<1>10. gw = g0 \o <<<<"window", p.window>>>> /\ gw = Append(g0, <<"window", p.window>>)
  OBVIOUS
<1>11. <<<<"window", p.window>>>> \in Seq(Entry)
  BY <1>1 DEF Entry, Names
<1> HIDE DEF size, h, f, w, a, b, c, d, g0, gw, r0
<1>12. PICK s \in Words : s = Cat(b, Cat(c, d))
  BY <1>2, CatWords
<1>13. x = Cat(a, s) /\ x \in Words
  BY <1>2, <1>12, CatWords
<1>14. Packet(p) = Cat(h, t) /\ t \in Words
  <2>1. Packet(p) = Cat(Cat(Cat(Cat(Cat(Cat(h, f), w), a), b), c), d)
    BY <1>5, Zenon DEF Cat
  <2>2. PICK y \in Words : y = Cat(Cat(h, f), w)
    BY <1>2, <1>4, CatWords
  <2>3. Cat(Cat(Cat(Cat(y, a), b), c), d) = Cat(y, x)
    BY <1>2, Regroup4
  <2> HIDE DEF x
  <2>4. Cat(Cat(Cat(h, f), w), x) = Cat(h, Cat(f, Cat(w, x)))
    BY <1>2, <1>4, <1>13, Regroup3
  <2>5. t \in Words
    BY <1>2, <1>13, CatWords
  <2> QED
    BY <2>1, <2>2, <2>3, <2>4, <2>5
<1>15. Come(p, r0, Cat(w, x), g0) /\ g0 \in Gots(p)
  <2> HIDE DEF x
  <2> QED
    BY <1>2, <1>9, <1>13, CatWords DEF r0
<1> HIDE DEF t, x
<1>16. Come(p, rw, x, gw) /\ gw \in Gots(p)
  <2>1. gw \in Gots(p)
    BY <1>10, <1>11, <1>15, GotsGrow
  <2>2. CASE r0 = Fail /\ ~Readable(p)
    BY <2>1, <2>2 DEF Come, Fail
  <2>3. CASE r0 = At(Cat(w, x), g0)
    <3>1. r0.ok = TRUE
      BY <2>3 DEF At
    <3>2. ReadUINT32(At(Cat(w, x), g0), "window") = At(x, Append(g0, <<"window", p.window>>))
      BY <1>1, <1>13, NumberRead DEF w
    <3> QED
      BY <1>10, <2>1, <2>3, <3>1, <3>2 DEF Come
  <2> QED
    BY <1>15, <2>1, <2>2, <2>3 DEF Come
<1> HIDE DEF rw
<1>17. Come(p, ra, s, ga) /\ ga \in Gots(p)
  BY <1>8, <1>13, <1>16, OptRead DEF a
<1> HIDE DEF ra, ga
<1>18. Come(p, rb, Cat(c, d), gb) /\ gb \in Gots(p) /\ Cat(c, d) \in Words
  BY <1>2, <1>8, <1>12, <1>17, OptRead, CatWords DEF b
<1> HIDE DEF rb, gb
<1>19. Come(p, rc, d, gc) /\ gc \in Gots(p)
  BY <1>2, <1>8, <1>18, OptRead DEF c
<1> HIDE DEF rc, gc
<1>20. Come(p, rd, <<>>, gd)
  BY <1>2, <1>8, <1>19, OptRead, CatEmpty DEF d
<1> QED
  BY <1>3, <1>7, <1>8, <1>14, <1>20 DEF Told, Left, h

LEMMA TextStep ==
    ASSUME NEW p \in PDUs, NEW f \in Texts, NEW t \in Words, NEW g \in Seq(Entry), NEW r,
           Come(p, r, Cat(Text(p, f), t), g), Readable(p) => Fits(p, f, TRUE)
    PROVE  Come(p, IF r.ok THEN ReadSTRING(r, f, TRUE) ELSE r, t, g \o <<Letters(p, f)>>)
<1>1. CASE r = Fail /\ ~Readable(p)
  BY <1>1 DEF Come, Fail
<1>2. CASE r = At(Cat(Text(p, f), t), g)
  <2>1. r.ok = TRUE
    BY <1>2 DEF At
  <2>2. ReadSTRING(r, f, TRUE)
            = IF Fits(p, f, TRUE) THEN At(t, g \o <<Letters(p, f)>>) ELSE Fail
    BY <1>2, TextRead DEF Words, Cat
  <2> QED
    BY <2>1, <2>2 DEF Come
<1> QED
  BY <1>1, <1>2 DEF Come

LEMMA CapsTold ==
    ASSUME NEW p \in PDUs, p.cmd = "caps", Packet(p) # Refused
    PROVE  Told(p, ReadServerCaps)
<1> DEFINE size == 2 + 2 + p.text.provider + 2 + p.text.uniqueId
           h == Header("caps", size)
           v == U16(p.version)
           a == Text(p, "provider")
           b == Text(p, "uniqueId")
           t == Cat(v, Cat(a, b))
           g0 == <<<<"version", p.version>>>>
           ga == g0 \o <<Letters(p, "provider")>>
           gb == ga \o <<Letters(p, "uniqueId")>>
           r0 == ReadUINT16(Start(t), "version")
           ra == ReadSTRING(r0, "provider", TRUE)
           rb == ReadSTRING(ra, "uniqueId", TRUE)
<1>1. p.version \in Nat /\ "provider" \in Texts /\ "uniqueId" \in Texts /\ "caps" \in DOMAIN Cmd
  BY DEF PDUs, Texts, Cmd
<1>2. v \in Words /\ a \in Words /\ b \in Words
  <2>1. ASSUME NEW f \in Texts PROVE Text(p, f) \in Words
    <3>1. U16(p.text[f]) \in Words /\ Chars(f, p.text[f]) \in Words
      BY CharsWords DEF U16, Words
    <3> QED
      BY <3>1, CatWords DEF Text, Cat
  <2> QED
    BY <1>1, <2>1 DEF U16, Words
<1>3. size \in Nat
  <2>1. p.text["provider"] \in Nat /\ p.text["uniqueId"] \in Nat
    BY <1>1, CharsWords
  <2> QED
    BY <2>1
<1>4. h \in Words
  BY <1>1, <1>3, HeaderWords
<1>5. Packet(p) = h \o v \o a \o b
  BY DEF Packet, SendCaps
<1>6. /\ Readable(p) => Fits(p, "provider", TRUE)
      /\ p.version >= 4 => (Readable(p) => Fits(p, "uniqueId", TRUE))
  BY DEF Readable, Carried, Needed, Fits
<1>7. Said(p) = IF p.version >= 4 THEN gb ELSE ga
  <2> DEFINE e == <<"version", p.version>>
             l == Letters(p, "provider")
             m == Letters(p, "uniqueId")
  <2>1. Said(p) = <<e, l>> \o (IF p.version >= 4 THEN <<m>> ELSE <<>>)
    BY DEF Said
  <2>0. e \in Entry /\ l \in Entry
    BY <1>1, CharsWords DEF e, l, Entry, Names
  <2>2. <<e, l>> = <<e>> \o <<l>> /\ <<e, l>> \o <<>> = <<e, l>>
    <3> HIDE DEF e, l, m
    <3> QED
      BY <2>0, TwoEntries
  <2>3. ga = <<e>> \o <<l>> /\ gb = <<e>> \o <<l>> \o <<m>>
    BY DEF e, l, m
  <2> HIDE DEF ga, gb
  <2> QED
    BY <2>1, <2>2, <2>3
<1>8. g0 \in Seq(Entry) /\ g0 = Append(<<>>, <<"version", p.version>>) /\ g0[1][2] = p.version
  BY <1>1 DEF Entry, Names
<1>9. Letters(p, "provider") \in Entry
  BY <1>1, CharsWords
<1> HIDE DEF size, h, v, a, b, g0
<1>10. Packet(p) = Cat(h, t) /\ t \in Words
  <2>1. Packet(p) = Cat(Cat(Cat(h, v), a), b)
    BY <1>5 DEF Cat
  <2> QED
    BY <1>2, <1>4, <2>1, Regroup3, CatWords
<1>11. r0 = At(Cat(a, b), g0)
  <2>1. PICK e : e = <<>>
    OBVIOUS
  <2>2. PICK x \in Words : x = Cat(a, b)
    BY <1>2, CatWords
  <2>3. ReadUINT16(At(U16(p.version) \o x, e), "version")
            = At(x, Append(e, <<"version", p.version>>))
    BY <1>1, U16Read DEF Words
  <2>4. Start(t) = At(U16(p.version) \o x, e)
    BY <2>1, <2>2 DEF Cat, v, Start, At
  <2> QED
    BY <1>8, <2>1, <2>2, <2>3, <2>4, Zenon
<1> HIDE DEF t, r0
<1>12. Come(p, ra, b, ga) /\ ga \in Seq(Entry) /\ ga[1][2] = p.version
  <2>1. Come(p, IF r0.ok THEN ReadSTRING(r0, "provider", TRUE) ELSE r0, b, ga)
    <3>1. Come(p, r0, Cat(Text(p, "provider"), b), g0)
      BY <1>11 DEF Come, a
    <3> QED
      BY <1>1, <1>2, <1>6, <1>8, <3>1, TextStep
  <2>2. r0.ok = TRUE
    BY <1>11 DEF At
  <2>3. ga \in Seq(Entry) /\ ga[1] = g0[1]
    BY <1>8, <1>9 DEF g0
  <2> QED
    BY <1>8, <2>1, <2>2, <2>3
<1>13. ReadServerCaps(t) = IF ra.ok /\ ra.got[1][2] >= 4 THEN rb ELSE ra
  BY DEF ReadServerCaps, r0
<1> HIDE DEF ra, ga
<1>14. ReadServerCaps(t) = IF p.version >= 4 THEN IF ra.ok THEN rb ELSE ra ELSE ra
  <2>1. ra = At(b, ga) => ra.got[1][2] = p.version
    BY <1>12 DEF At
  <2>2. ra = Fail => ~ra.ok
    BY DEF Fail
  <2> QED
    BY <1>12, <1>13, <2>1, <2>2 DEF Come
<1>15. ASSUME p.version >= 4 PROVE Come(p, IF ra.ok THEN rb ELSE ra, <<>>, gb)
  BY <1>1, <1>2, <1>6, <1>12, <1>15, TextStep, CatEmpty DEF b
<1>16. Come(p, ReadServerCaps(t), Left(p), Said(p))
  <2>1. CASE p.version >= 4
    <3>1. Left(p) = <<>>
      BY <1>1, <2>1 DEF Left
    <3> HIDE DEF rb, gb
    <3> QED
      BY <1>7, <1>14, <1>15, <2>1, <3>1
  <2>2. CASE ~(p.version >= 4)
    <3>1. Left(p) = b
      BY <1>1, <2>2 DEF Left, b
    <3> QED
      BY <1>1, <1>7, <1>12, <1>14, <2>2, <3>1
  <2> QED
    BY <2>1, <2>2
<1> QED
  BY <1>3, <1>10, <1>16 DEF Told, h

LEMMA ImageWords ==
    ASSUME NEW n \in Even
    PROVE  n \in Nat /\ Image(n) \in Words /\ Len(Image(n)) = n \div 2
<1>1. n \in Nat /\ n \div 2 \in Nat
  BY DEF Even
<1> QED
  BY <1>1 DEF Image, Words

LEMMA InfoWords == IconInfo \in Words /\ Len(IconInfo) = 12
<1>1. \A i \in 1 .. 12 : i % 2 \in Nat
  OBVIOUS
<1> QED
  BY <1>1 DEF IconInfo, Words

LEMMA LastAppended ==
    ASSUME NEW w, NEW g \in Seq(Entry), NEW e \in Entry
    PROVE  Last(At(w, Append(g, e))) = e[2] /\ Append(g, e) \in Seq(Entry)
<1>1. Append(g, e) \in Seq(Entry) /\ Append(g, e)[Len(Append(g, e))] = e
  <2> HIDE DEF Entry
  <2> QED
    BY AppendProperties
<1> QED
  BY <1>1 DEF Last, At

\* An image is read as it was written.
LEMMA ImageRead ==
    ASSUME NEW n \in Even, NEW g \in Seq(Entry)
    PROVE  ReadIconData(At(Cat(Cat(IconInfo, U32(n)), Image(n)), g))
               = At(<<>>, g \o <<<<"iconInfo", IconInfo>>, <<"iconSize", n>>, <<"image", Image(n)>>>>)
<1> DEFINE e == <<"iconInfo", IconInfo>>
           l == <<"iconSize", n>>
           k == <<"image", Image(n)>>
           g1 == Append(g, e)
           g2 == Append(g1, l)
           g3 == Append(g2, k)
<1>1. n \in Nat /\ e \in Entry /\ l \in Entry /\ k \in Entry
  BY ImageWords, InfoWords DEF Entry, Names, Words
<1>2. PICK i \in Words : i = IconInfo /\ Len(i) = 12
  BY InfoWords
<1>3. PICK u \in Words : u = U32(n)
  BY <1>1, U32IsWords DEF Words
<1>4. PICK m \in Words : m = Image(n) /\ Len(m) = n \div 2
  BY ImageWords
<1>5. PICK x \in Words : x = Cat(u, m)
  BY CatWords
<1>6. Cat(Cat(i, u), m) = Cat(i, x)
  BY <1>5, CatCat
<1>7. l[2] = n
  OBVIOUS
<1>8. PICK z \in Words : z = <<>>
  BY <1>2, CatEmpty
<1>9. g1 = Append(g, <<"iconInfo", i>>) /\ g3 = Append(g2, <<"image", m>>)
  BY <1>2, <1>4
<1>10. g2 = Append(g1, <<"iconSize", n>>)
  OBVIOUS
<1>11. g3 = g \o <<e, l, k>>
  <2> HIDE DEF e, l, k
  <2> QED
    BY <1>1, ThreeEntries
<1>12. Last(At(m, g2)) = n
  <2> HIDE DEF e, l, k
  <2>1. g1 \in Seq(Entry)
    BY <1>1, LastAppended
  <2> HIDE DEF g1
  <2> QED
    BY <1>1, <1>7, <2>1, LastAppended
<1> HIDE DEF g1, g2, g3
<1>13. ReadBYTES(At(Cat(i, x), g), 24, "iconInfo") = At(x, g1)
  <2>1. PICK b \in Nat : b = 24
    OBVIOUS
  <2>2. b \div 2 = Len(i) => ReadBYTES(At(i \o x, g), b, "iconInfo")
                                 = At(x, Append(g, <<"iconInfo", i>>))
    BY BytesRead DEF Words
  <2>3. b \div 2 = Len(i)
    BY <1>2, <2>1
  <2> QED
    BY <1>9, <2>1, <2>2, <2>3 DEF Cat
<1>14. ReadUINT32(At(x, g1), "iconSize") = At(m, g2)
  <2>1. ReadUINT32(At(Cat(U32(n), m), g1), "iconSize") = At(m, Append(g1, <<"iconSize", n>>))
    BY <1>1, NumberRead
  <2> QED
    BY <1>3, <1>5, <1>10, <2>1
<1>15. ReadBYTES(At(m, g2), n, "image") = At(<<>>, g3)
  <2>1. n \div 2 = Len(m) => ReadBYTES(At(m \o z, g2), n, "image")
                                 = At(z, Append(g2, <<"image", m>>))
    BY <1>1, BytesRead DEF Words
  <2>2. m \o z = m
    BY <1>8, CatEmpty DEF Cat
  <2> QED
    BY <1>4, <1>8, <1>9, <2>1, <2>2
<1>16. At(m, g2).ok = TRUE
  BY DEF At
<1>17. ReadIconData(At(Cat(i, x), g)) = At(<<>>, g3)
  BY <1>12, <1>13, <1>14, <1>15, <1>16 DEF ReadIconData
<1> QED
  BY <1>2, <1>3, <1>4, <1>6, <1>11, <1>17

\* What an update says of its icon.
OptImage(p) ==
    IF Has(p.flags, Field.icon)
    THEN <<<<"iconInfo", IconInfo>>, <<"iconSize", p.icon>>, <<"image", Image(p.icon)>>>>
    ELSE <<>>

LEMMA IconRead ==
    ASSUME NEW p \in PDUs, ~NoUpdate(p), NEW g \in Gots(p), NEW r, Come(p, r, OptIcon(p), g)
    PROVE  Come(p, IF r.ok /\ Has(r.got[1][2], Field.icon) THEN ReadIconData(r) ELSE r,
                <<>>, g \o OptImage(p))
<1> DEFINE R == IF r.ok /\ Has(r.got[1][2], Field.icon) THEN ReadIconData(r) ELSE r
<1>1. CASE r = Fail /\ ~Readable(p)
  BY <1>1 DEF Come, Fail
<1>2. CASE r = At(OptIcon(p), g)
  <2>1. r.ok = TRUE /\ r.got = g /\ g[1][2] = p.flags /\ g \in Seq(Entry)
    BY <1>2 DEF At, Gots
  <2>2. CASE Has(p.flags, Field.icon)
    <3>1. p.icon \in Even
      BY <2>2 DEF NoUpdate, PDUs
    <3>2. OptIcon(p) = Cat(Cat(IconInfo, U32(p.icon)), Image(p.icon))
      BY <2>2 DEF OptIcon, Cat
    <3>3. R = ReadIconData(r)
      BY <2>1, <2>2
    <3>4. ReadIconData(At(Cat(Cat(IconInfo, U32(p.icon)), Image(p.icon)), g))
              = At(<<>>, g \o OptImage(p))
      BY <2>1, <2>2, <3>1, ImageRead DEF OptImage
    <3> QED
      BY <1>2, <3>2, <3>3, <3>4 DEF Come
  <2>3. CASE ~Has(p.flags, Field.icon)
    <3>1. OptIcon(p) = <<>> /\ OptImage(p) = <<>>
      BY <2>3 DEF OptIcon, OptImage
    <3>2. R = r
      BY <2>1, <2>3
    <3>3. g \o <<>> = g
      BY <2>1, ConcatEmptySeq
    <3> QED
      BY <1>2, <3>1, <3>2, <3>3 DEF Come
  <2> QED
    BY <2>2, <2>3
<1> QED
  BY <1>1, <1>2 DEF Come

LEMMA UpdateTold ==
    ASSUME NEW p \in PDUs, p.cmd = "update", Packet(p) # Refused
    PROVE  Told(p, ReadUpdate)
<1> DEFINE size == UpdateSize(p)
           h == Header("update", size)
           f == U32(p.flags)
           a == OptText(p, "id")
           b == OptText(p, "group")
           c == OptText(p, "exec")
           d == OptText(p, "workingDir")
           e == OptText(p, "desc")
           i == OptIcon(p)
           g0 == <<<<"flags", p.flags>>>>
           ga == g0 \o OptLetters(p, "id")
           gb == ga \o OptLetters(p, "group")
           gc == gb \o OptLetters(p, "exec")
           gd == gc \o OptLetters(p, "workingDir")
           ge == gd \o OptLetters(p, "desc")
           required == {Field.id, Field.exec, Field.desc}
<1>1. /\ p.flags \in Nat /\ "update" \in DOMAIN Cmd
      /\ "id" \in Texts /\ "group" \in Texts /\ "exec" \in Texts
      /\ "workingDir" \in Texts /\ "desc" \in Texts
  BY DEF PDUs, Texts, Cmd
<1>2. ~NoUpdate(p)
  BY DEF Packet, SendUpdate
<1>3. /\ f \in Words /\ a \in Words /\ b \in Words /\ c \in Words /\ d \in Words /\ e \in Words
      /\ OptSize(p, "id") \in Nat /\ OptSize(p, "group") \in Nat /\ OptSize(p, "exec") \in Nat
      /\ OptSize(p, "workingDir") \in Nat /\ OptSize(p, "desc") \in Nat
  BY <1>1, OptWords, U32IsWords DEF Words
<1>4. i \in Words
  <2>1. CASE Has(p.flags, Field.icon)
    <3>1. p.icon \in Even /\ p.icon \in Nat
      BY <1>2, <2>1 DEF NoUpdate, PDUs, Even
    <3>2. U32(p.icon) \in Words /\ IconInfo \in Words /\ Image(p.icon) \in Words
      BY <3>1, U32IsWords, InfoWords, ImageWords DEF Words
    <3>3. i = Cat(Cat(IconInfo, U32(p.icon)), Image(p.icon))
      BY <2>1 DEF OptIcon, Cat
    <3> QED
      BY <3>2, <3>3, CatWords
  <2>2. CASE ~Has(p.flags, Field.icon)
    BY <1>3, <2>2, CatEmpty DEF OptIcon
  <2> QED
    BY <2>1, <2>2
<1>5. size \in Nat
  <2>1. Has(p.flags, Field.icon) => p.icon \in Nat
    BY <1>2 DEF NoUpdate, PDUs, Even
  <2> QED
    BY <1>3, <2>1 DEF UpdateSize
<1>6. h \in Words
  BY <1>1, <1>5, HeaderWords
<1>7. Readable(p) => HasAll(p.flags, required)
  BY DEF Readable, Requires, Field
<1>8. /\ "id" \in FieldsOf[p.cmd] /\ "group" \in FieldsOf[p.cmd] /\ "exec" \in FieldsOf[p.cmd]
      /\ "workingDir" \in FieldsOf[p.cmd] /\ "desc" \in FieldsOf[p.cmd] /\ p.cmd # "caps"
  BY DEF FieldsOf
<1>9. Packet(p) = Cat(Cat(Cat(Cat(Cat(Cat(Cat(h, f), a), b), c), d), e), i)
  <2>1. Packet(p) = h \o f \o a \o b \o c \o d \o e \o i
    BY <1>2 DEF Packet, SendUpdate
  <2> QED
    BY <2>1, Zenon DEF Cat
<1>10. Said(p) = ge \o OptImage(p)
  <2>1. Said(p) = g0 \o OptLetters(p, "id") \o OptLetters(p, "group") \o OptLetters(p, "exec")
                     \o OptLetters(p, "workingDir") \o OptLetters(p, "desc")
                     \o (IF Has(p.flags, Field.icon)
                         THEN <<<<"iconInfo", IconInfo>>, <<"iconSize", p.icon>>,
                                <<"image", Image(p.icon)>>>>
                         ELSE <<>>)
    BY DEF Said
  <2> QED
    BY <2>1, Zenon DEF OptImage
<1>11. ASSUME NEW y \in Words
       PROVE  Come(p, ReadFlags(Cat(f, y), required), y, g0) /\ g0 \in Gots(p)
  BY <1>7, FlagsRead
<1> HIDE DEF size, h, f, g0
<1>12. PICK xe \in Words : xe = Cat(e, i)
  BY <1>3, <1>4, CatWords
<1>13. PICK xd \in Words : xd = Cat(d, xe)
  BY <1>3, CatWords
<1>14. PICK xc \in Words : xc = Cat(c, xd)
  BY <1>3, CatWords
<1>15. PICK xb \in Words : xb = Cat(b, xc)
  BY <1>3, CatWords
<1>16. PICK xa \in Words : xa = Cat(a, xb)
  BY <1>3, CatWords
<1>17. PICK t \in Words : t = Cat(f, xa)
  BY <1>3, CatWords
<1>18. Packet(p) = Cat(h, t)
  <2> HIDE DEF a, b, c, d, e, i
  <2>1. PICK y \in Words : y = Cat(Cat(Cat(h, f), a), b)
    BY <1>3, <1>6, CatWords
  <2>2. Cat(Cat(Cat(Cat(y, c), d), e), i) = Cat(y, Cat(c, Cat(d, Cat(e, i))))
    <3>1. c \in Words /\ d \in Words /\ e \in Words /\ i \in Words
      BY <1>3, <1>4
    <3>2. PICK u \in Words : u = Cat(y, c)
      BY <3>1, CatWords
    <3>3. Cat(Cat(Cat(u, d), e), i) = Cat(u, xd)
      BY <1>12, <1>13, <3>1, Regroup3
    <3>4. Cat(Cat(y, c), xd) = Cat(y, Cat(c, xd))
      BY <3>1, CatCat
    <3> QED
      BY <1>12, <1>13, <3>2, <3>3, <3>4, Zenon
  <2>3. Cat(Cat(Cat(Cat(h, f), a), b), xc) = Cat(h, Cat(f, Cat(a, Cat(b, xc))))
    <3>1. h \in Words /\ f \in Words /\ a \in Words /\ b \in Words
      BY <1>3, <1>6
    <3>2. PICK u \in Words : u = Cat(h, f)
      BY <3>1, CatWords
    <3>3. Cat(Cat(Cat(u, a), b), xc) = Cat(u, xa)
      BY <1>15, <1>16, <3>1, Regroup3
    <3>4. Cat(Cat(h, f), xa) = Cat(h, Cat(f, xa))
      BY <3>1, CatCat
    <3> QED
      BY <1>15, <1>16, <3>2, <3>3, <3>4, Zenon
  <2> QED
    BY <1>9, <1>12, <1>13, <1>14, <1>15, <1>16, <1>17, <2>1, <2>2, <2>3, Zenon
<1> DEFINE r0 == ReadFlags(t, required)
           ra == Flagged(r0, "id", TRUE)
           rb == Flagged(ra, "group", FALSE)
           rc == Flagged(rb, "exec", TRUE)
           rd == Flagged(rc, "workingDir", FALSE)
           re == Flagged(rd, "desc", TRUE)
           R  == IF re.ok /\ Has(re.got[1][2], Field.icon) THEN ReadIconData(re) ELSE re
<1>19. ReadUpdate(t) = R
  BY DEF ReadUpdate
<1>20. Come(p, r0, xa, g0) /\ g0 \in Gots(p)
  BY <1>11, <1>17
<1> HIDE DEF r0
<1>21. Come(p, ra, xb, ga) /\ ga \in Gots(p)
  BY <1>8, <1>16, <1>20, OptRead
<1> HIDE DEF ra, ga
<1>22. Come(p, rb, xc, gb) /\ gb \in Gots(p)
  BY <1>8, <1>15, <1>21, OptRead
<1> HIDE DEF rb, gb
<1>23. Come(p, rc, xd, gc) /\ gc \in Gots(p)
  BY <1>8, <1>14, <1>22, OptRead
<1> HIDE DEF rc, gc
<1>24. Come(p, rd, xe, gd) /\ gd \in Gots(p)
  BY <1>8, <1>13, <1>23, OptRead
<1> HIDE DEF rd, gd
<1>25. Come(p, re, i, ge) /\ ge \in Gots(p)
  BY <1>4, <1>8, <1>12, <1>24, OptRead
<1> HIDE DEF re, ge
<1>26. Come(p, R, <<>>, ge \o OptImage(p))
  BY <1>2, <1>25, IconRead
<1>27. Left(p) = <<>>
  BY DEF Left
<1> HIDE DEF R
<1>28. Come(p, ReadUpdate(t), Left(p), Said(p))
  BY <1>10, <1>19, <1>26, <1>27
<1> QED
  BY <1>5, <1>18, <1>28 DEF Told, h
-----------------------------------------------------------------------------
(* The wire of the session *)

Item       == [what : {"create", "created", "data", "close"}, n : Nat,
               pdu : Messages \cup {None}, words : Seq(Nat)]
FramedItem == {e \in Item : e.what = "data" => Framed(e.words)}
WireInv    == opens \in Nat /\ wire \in Seq(FramedItem)

LEMMA EventItem ==
    ASSUME NEW what \in {"create", "created", "close"}, NEW n \in Nat
    PROVE  Event(what, n) \in FramedItem
<1>1. <<>> \in Seq(Nat)
  OBVIOUS
<1> QED
  BY <1>1 DEF Event, FramedItem, Item

LEMMA PacketItem ==
    ASSUME NEW p \in Messages, NEW n \in Nat, Packet(p) # Refused
    PROVE  Data(n, p, Packet(p)) \in FramedItem
<1>1. Packet(p) \in Seq(Nat) /\ Framed(Packet(p))
  BY PacketFramed, SessionAssumption DEF Good
<1> QED
  BY <1>1 DEF Data, FramedItem, Item

LEMMA WireStep == ASSUME WireInv, [SessionNext]_allVars PROVE WireInv'
<1> USE DEF WireInv
<1>1. CASE SessionOpen
  <2>1. opens' = opens + 1 /\ opens' \in Nat
    BY <1>1 DEF SessionOpen
  <2>2. Event("create", opens') \in FramedItem /\ Event("close", opens') \in FramedItem
    BY <2>1, EventItem
  <2>3. CASE wire' = Append(wire, Event("create", opens'))
    BY <2>1, <2>2, <2>3
  <2>4. CASE wire' = wire \o <<Event("create", opens'), Event("close", opens')>>
    BY <2>1, <2>2, <2>4
  <2> QED
    BY <1>1, <2>3, <2>4 DEF SessionOpen
<1>2. CASE SessionCloseChannel
  <2>1. Event("close", opens) \in FramedItem
    BY EventItem
  <2> QED
    BY <1>2, <2>1 DEF SessionCloseChannel
<1>3. ASSUME NEW p \in Messages, Send(p) PROVE WireInv'
  <2>1. CASE Packet(p) = Refused
    BY <1>3, <2>1 DEF Send
  <2>2. CASE Packet(p) # Refused
    <3>1. Data(opens, p, Packet(p)) \in FramedItem
      BY <2>2, PacketItem
    <3> QED
      BY <1>3, <2>2, <3>1 DEF Send
  <2> QED
    BY <2>1, <2>2
<1>4. CASE Deliver
  BY <1>4 DEF Deliver
<1>5. CASE UNCHANGED <<opens, wire>>
  BY <1>5
<1>6. CASE SessionOpenFails \/ SessionClose \/ SessionCloseFails \/ SessionWakeForNothing
  BY <1>5, <1>6 DEF SessionOpenFails, SessionClose, SessionCloseFails, SessionWakeForNothing, linkVars
<1>7. CASE SessionThread \/ Receive \/ Dispatch
  BY <1>5, <1>7 DEF SessionThread, Receive, Dispatch
<1> QED
  BY <1>1, <1>2, <1>3, <1>4, <1>5, <1>6, <1>7 DEF SessionNext, allVars, linkVars

\* Whatever the compositor sends, and whatever fails, the length in the header of
\* each packet on its way is that of the packet (rdpapplist_main.c:253).
THEOREM PacketsFramed == SessionSpec => []PacketsAreFramed
<1>1. SessionInit => WireInv
  BY DEF SessionInit, WireInv
<1>2. WireInv /\ [SessionNext]_allVars => WireInv'
  BY WireStep
<1>3. WireInv => PacketsAreFramed
  <2> SUFFICES ASSUME WireInv, NEW i \in DOMAIN wire, wire[i].what = "data"
               PROVE  Framed(wire[i].words)
    BY DEF PacketsAreFramed, Framed
  <2>1. wire[i] \in FramedItem
    BY DEF WireInv
  <2> QED
    BY <2>1 DEF FramedItem
<1> QED
  BY <1>1, <1>2, <1>3, PTL DEF SessionSpec
-----------------------------------------------------------------------------
(* The session is a server of AppListServer *)

\* The packets of q are of the first k channels.
UpTo(q, k) == q \in Seq(Item) /\ \A i \in 1 .. Len(q) : q[i].n <= k

LEMMA UpToWeaker ==
    ASSUME NEW k \in Nat, NEW m \in Nat, k <= m, NEW q, UpTo(q, k)
    PROVE  UpTo(q, m)
<1>1. q \in Seq(Item) /\ \A i \in 1 .. Len(q) : q[i].n <= k
  BY DEF UpTo
<1>2. ASSUME NEW i \in 1 .. Len(q) PROVE q[i].n <= m
  <2>1. q[i] \in Item
    BY <1>1
  <2>2. q[i].n \in Nat
    BY <2>1 DEF Item
  <2> QED
    BY <1>1, <2>2
<1> QED
  BY <1>1, <1>2 DEF UpTo

LEMMA UpToAppend ==
    ASSUME NEW k \in Nat, NEW m \in Nat, k <= m, NEW q, UpTo(q, k), NEW e \in Item, e.n <= m
    PROVE  UpTo(Append(q, e), m)
<1>1. q \in Seq(Item) /\ \A i \in 1 .. Len(q) : q[i].n <= m
  BY UpToWeaker DEF UpTo
<1>2. /\ Append(q, e) \in Seq(Item) /\ Len(Append(q, e)) = Len(q) + 1 /\ Len(q) \in Nat
      /\ \A i \in 1 .. Len(q) : Append(q, e)[i] = q[i]
      /\ Append(q, e)[Len(q) + 1] = e
  BY <1>1
<1>3. ASSUME NEW i \in 1 .. Len(q) + 1 PROVE Append(q, e)[i].n <= m
  <2>1. CASE i = Len(q) + 1
    BY <1>2, <2>1
  <2>2. CASE i \in 1 .. Len(q)
    BY <1>1, <1>2, <2>2
  <2> QED
    BY <1>2, <2>1, <2>2
<1> QED
  BY <1>2, <1>3 DEF UpTo

LEMMA UpToTail ==
    ASSUME NEW k \in Nat, NEW q, UpTo(q, k), q # <<>>
    PROVE  /\ UpTo(Tail(q), k)
           /\ Head(q) \in Item /\ Head(q).n <= k /\ Head(q).n \in Nat
<1>1. q \in Seq(Item) /\ \A i \in 1 .. Len(q) : q[i].n <= k
  BY DEF UpTo
<1>2. /\ Len(q) \in Nat /\ Len(q) > 0
      /\ Tail(q) \in Seq(Item) /\ Len(Tail(q)) = Len(q) - 1
      /\ \A i \in 1 .. Len(q) - 1 : Tail(q)[i] = q[i + 1]
      /\ Head(q) = q[1]
  BY <1>1
<1>3. Head(q) \in Item /\ Head(q).n <= k
  BY <1>1, <1>2
<1>4. \A i \in 1 .. Len(q) - 1 : q[i + 1].n <= k
  BY <1>1, <1>2
<1> QED
  BY <1>2, <1>3, <1>4 DEF UpTo, Item

\* No packet and no callback is of a channel that is still to be opened.
Numbered ==
    /\ opens \in Nat
    /\ UpTo(wire, opens) /\ UpTo(back, opens)
    /\ "n" \in DOMAIN client /\ client.n \in Nat /\ client.n <= opens

\* Before the i-th packet from the plugin the server knows of the plugin's
\* callback, or the channel is closed.
Accepted(i) ==
    \/ ready \/ ~channel
    \/ \E j \in DOMAIN back : j < i /\ back[j].what = "created" /\ back[j].n = opens

AcceptedFirst ==
    /\ \A i \in DOMAIN back : back[i].what = "data" /\ back[i].n = opens => Accepted(i)
    /\ client.n = opens => Accepted(Len(back) + 1)

LinkInv == IInv /\ Numbered /\ AcceptedFirst

LEMMA InitLinkInv == SessionInit => LinkInv
<1> SUFFICES ASSUME SessionInit PROVE LinkInv
  OBVIOUS
<1>1. IInv
  BY InitIInv DEF SessionInit
<1>2. Numbered
  BY DEF SessionInit, Numbered, UpTo
<1>3. AcceptedFirst
  BY DEF SessionInit, Init, AcceptedFirst, Accepted
<1> QED
  BY <1>1, <1>2, <1>3 DEF LinkInv

\* What comes in is an acceptance, a message, or nothing to the server.
LEMMA ReceiveIsServer == ASSUME LinkInv, Receive PROVE [Next]_vars
<1> DEFINE e == Head(back)
           mine == channel /\ e.n = opens
<1>1. /\ back # <<>> /\ back \in Seq(Item) /\ e = back[1] /\ 1 \in DOMAIN back
      /\ ready \in BOOLEAN
  BY DEF Receive, LinkInv, Numbered, UpTo, IInv, TypeOK
<1>2. UNCHANGED <<caller, result, channel, thread, stop, isReady, taken>>
  BY DEF Receive
<1>3. CASE mine /\ e.what = "created"
  <2>1. ready' = TRUE /\ arrived' = arrived
    BY <1>3 DEF Receive
  <2>2. CASE ready
    BY <1>2, <2>1, <2>2 DEF vars
  <2>3. CASE ~ready
    BY <1>2, <1>3, <2>1, <2>3 DEF Accept, Next
  <2> QED
    BY <2>2, <2>3
<1>4. CASE mine /\ e.what = "data"
  <2>1. ready
    BY <1>1, <1>4 DEF LinkInv, AcceptedFirst, Accepted
  <2>2. ready' = ready /\ arrived' = arrived + 1 /\ arrived < MaxMessages
    BY <1>1, <1>4, <2>1 DEF Receive
  <2> QED
    BY <1>2, <1>4, <2>1, <2>2 DEF Arrive, Next
<1>5. CASE ~(mine /\ e.what = "created") /\ ~(mine /\ e.what = "data")
  <2>1. ready' = ready /\ arrived' = arrived
    BY <1>1, <1>5 DEF Receive
  <2> QED
    BY <1>2, <2>1 DEF vars
<1> QED
  BY <1>3, <1>4, <1>5

LEMMA SessionIsServer == ASSUME LinkInv, [SessionNext]_allVars PROVE [Next]_vars
<1>1. CASE SessionOpen \/ SessionOpenFails \/ SessionClose \/ SessionCloseFails \/ SessionCloseChannel
  BY <1>1 DEF SessionOpen, SessionOpenFails, SessionClose, SessionCloseFails, SessionCloseChannel, Next
<1>2. CASE SessionThread \/ SessionWakeForNothing
  BY <1>2 DEF SessionThread, SessionWakeForNothing, Thread, Next
<1>3. CASE (\E p \in Messages : Send(p)) \/ Deliver \/ Dispatch
  BY <1>3 DEF Send, Deliver, Dispatch, serverVars
<1>4. CASE Receive
  BY <1>4, ReceiveIsServer
<1>5. CASE UNCHANGED allVars
  BY <1>5 DEF allVars
<1> QED
  BY <1>1, <1>2, <1>3, <1>4, <1>5 DEF SessionNext

LEMMA ReplyItem == ASSUME NEW n \in Nat PROVE Data(n, None, CapsReply) \in Item
<1> DEFINE h == Header("caps", 2 + LangSize)
           v == U16(ChannelVersion)
           l == [i \in 1 .. LangSize \div 2 |-> 108]
<1>1. LangSize \in Even /\ 2 + LangSize \in Nat /\ ChannelVersion \in Nat /\ "caps" \in DOMAIN Cmd
  BY DEF LangSize, Even, ChannelVersion, Cmd
<1>2. Begun(h, 2 + LangSize, 0) /\ Sized(v, 2) /\ Sized(l, LangSize)
  BY <1>1, HeaderBegun, U16Sized, RunSized
<1> HIDE DEF h, v, l
<1>3. Begun(h \o v, 2 + LangSize, 0 + 2)
  BY <1>2, Extended
<1>4. Begun(h \o v \o l, 2 + LangSize, 0 + 2 + LangSize)
  BY <1>2, <1>3, Extended
<1>5. h \o v \o l \in Seq(Nat)
  BY <1>4 DEF Begun
<1>6. CapsReply \in Seq(Nat)
  BY <1>5 DEF CapsReply, h, v, l
<1> QED
  BY <1>6 DEF Data, Item

\* What the plugin does with a message leaves its channel's number alone.
LEMMA DispatchEffect ==
    ASSUME Dispatch, "n" \in DOMAIN client
    PROVE  /\ client'.n = client.n /\ "n" \in DOMAIN client'
           /\ back' = back \/ back' = Append(back, Data(client.n, None, CapsReply))
<1> DEFINE Kept == client'.n = client.n /\ "n" \in DOMAIN client'
<1>1. ASSUME NEW rest, NEW outcome, NEW got, Leaves(rest, outcome, got) PROVE Kept
  BY <1>1 DEF Leaves
<1>2. ASSUME NEW outcome, Breaks(outcome) PROVE Kept
  BY <1>1, <1>2 DEF Breaks
<1>3. ASSUME NEW r, Handler(r) PROVE Kept
  BY <1>1, <1>2, <1>3 DEF Handler
<1>4. ASSUME NEW body, OnCaps(body)
      PROVE  Kept /\ (back' = back \/ back' = Append(back, Data(client.n, None, CapsReply)))
  <2> DEFINE r == Reading["caps"][body]
  <2> HIDE DEF r
  <2>1. CASE (\E outcome : Breaks(outcome)) /\ UNCHANGED back
    BY <1>2, <2>1
  <2>2. CASE (\E h \in BOOLEAN : \E b : client' = [client EXCEPT !.buf = b, !.handshake = h])
             /\ (back' = back \/ back' = Append(back, Data(client.n, None, CapsReply)))
    BY <2>2
  <2>3. \/ Breaks("unreadable") /\ UNCHANGED back
        \/ Breaks("failed") /\ UNCHANGED back
        \/ client' = [client EXCEPT !.buf = <<>>, !.handshake = FALSE] /\ UNCHANGED back
        \/ /\ client' = [client EXCEPT !.buf = r.rest, !.handshake = TRUE]
           /\ back' = Append(back, Data(client.n, None, CapsReply))
    BY <1>4 DEF OnCaps, r
  <2> QED
    BY <2>1, <2>2, <2>3
<1> DEFINE header == ReadAppListHeader(client.buf)
           body   == header.rest
           cmd    == header.got[1][2]
           u == Reading["update"][body]
           d == Reading["delete"][body]
           a == Reading["associate"][body]
<1>5. \/ OnCaps(body)
      \/ /\ UNCHANGED back
         /\ \/ Breaks("unreadable") \/ Breaks("early")
            \/ Handler(u) \/ Handler(d) \/ Handler(a)
            \/ Leaves(body, "ignored", <<>>)
  BY DEF Dispatch
<1> HIDE DEF header, body, cmd, u, d, a, Kept
<1> QED
  <2>1. Kept /\ (back' = back \/ back' = Append(back, Data(client.n, None, CapsReply)))
    BY <1>1, <1>2, <1>3, <1>4, <1>5
  <2> QED
    BY <2>1 DEF Kept

\* A step of the server that neither opens nor closes the channel.
LEMMA ServerKeeps ==
    ASSUME OpenFails \/ Close \/ CloseFails \/ Thread \/ WakeForNothing
    PROVE  UNCHANGED <<channel, ready>>
  BY DEF OpenFails, Close, CloseFails, Thread, Stopped, Wake, HandleMessages, WakeForNothing

LEMMA NumberedStep == ASSUME LinkInv, [SessionNext]_allVars PROVE Numbered'
<1> USE DEF Numbered, LinkInv
<1>1. CASE UNCHANGED <<opens, wire, back, client>>
  BY <1>1
<1>2. CASE SessionOpen
  <2>1. opens' = opens + 1 /\ opens' \in Nat /\ UNCHANGED <<back, client>>
    BY <1>2 DEF SessionOpen, clientVars
  <2> DEFINE c == Event("create", opens')
             z == Event("close", opens')
  <2>2. c \in Item /\ z \in Item /\ c.n = opens' /\ z.n = opens'
    BY <2>1, EventItem DEF FramedItem, Event
  <2> HIDE DEF c, z
  <2>3. wire' = Append(wire, c) \/ wire' = wire \o <<c, z>>
    BY <1>2 DEF SessionOpen, c, z
  <2>4. wire \o <<c, z>> = Append(Append(wire, c), z)
    BY <2>2 DEF UpTo
  <2>5. UpTo(Append(wire, c), opens') /\ UpTo(Append(Append(wire, c), z), opens')
    BY <2>1, <2>2, UpToAppend
  <2>6. UpTo(wire', opens')
    BY <2>3, <2>4, <2>5
  <2>7. UpTo(back, opens')
    BY <2>1, UpToWeaker
  <2> QED
    BY <2>1, <2>6, <2>7
<1>3. CASE SessionCloseChannel
  <2>1. Event("close", opens) \in Item /\ Event("close", opens).n = opens
    BY EventItem DEF FramedItem, Event
  <2> QED
    BY <1>3, <2>1, UpToAppend DEF SessionCloseChannel, clientVars
<1>4. ASSUME NEW p \in Messages, Send(p) PROVE Numbered'
  <2>1. CASE Packet(p) = Refused
    BY <1>4, <2>1 DEF Send, clientVars
  <2>2. CASE Packet(p) # Refused
    <3>1. Data(opens, p, Packet(p)) \in Item /\ Data(opens, p, Packet(p)).n = opens
      BY <2>2, PacketItem DEF FramedItem, Data
    <3> QED
      BY <1>4, <2>2, <3>1, UpToAppend DEF Send, clientVars
  <2> QED
    BY <2>1, <2>2
<1>5. CASE Receive
  BY <1>5, UpToTail DEF Receive, clientVars
<1>6. CASE Deliver
  <2> DEFINE e == Head(wire)
  <2>1. e \in Item /\ e.n \in Nat /\ e.n <= opens /\ UpTo(Tail(wire), opens)
    BY <1>6, UpToTail DEF Deliver
  <2>2. opens' = opens /\ wire' = Tail(wire) /\ wire # <<>>
    BY <1>6 DEF Deliver
  <2>3. "n" \in DOMAIN client' /\ (client'.n = client.n \/ client'.n = e.n)
    BY <1>6, <2>1 DEF Deliver, Item
  <2>4. back' = back \/ back' = Append(back, Event("created", e.n))
    BY <1>6 DEF Deliver
  <2>5. Event("created", e.n) \in Item /\ Event("created", e.n).n = e.n
    BY <2>1, EventItem DEF FramedItem, Event
  <2> HIDE DEF e
  <2> QED
    <3>1. UpTo(wire', opens') /\ opens' \in Nat /\ client'.n \in Nat /\ client'.n <= opens'
      BY <2>1, <2>2, <2>3
    <3> DEFINE c == Event("created", e.n)
    <3> HIDE DEF c
    <3>2. c \in Item /\ c.n <= opens /\ opens \in Nat /\ opens <= opens /\ UpTo(back, opens)
      BY <2>1, <2>5 DEF c
    <3>3. UpTo(Append(back, c), opens)
      BY <3>2, UpToAppend
    <3>4. UpTo(back', opens')
      BY <2>2, <2>4, <3>2, <3>3 DEF c
    <3> QED
      BY <2>3, <3>1, <3>4
<1>7. CASE Dispatch
  <2>1. Data(client.n, None, CapsReply) \in Item /\ Data(client.n, None, CapsReply).n = client.n
    BY ReplyItem DEF Data
  <2>2. UNCHANGED <<opens, wire>>
    BY <1>7 DEF Dispatch
  <2> QED
    <3>1. /\ client'.n = client.n /\ "n" \in DOMAIN client'
          /\ back' = back \/ back' = Append(back, Data(client.n, None, CapsReply))
      BY <1>7, DispatchEffect
    <3> DEFINE c == Data(client.n, None, CapsReply)
    <3> HIDE DEF c
    <3>2. c \in Item /\ c.n <= opens /\ opens \in Nat /\ opens <= opens /\ UpTo(back, opens)
      BY <2>1 DEF c
    <3>3. UpTo(Append(back, c), opens)
      BY <3>2, UpToAppend
    <3>4. UpTo(back', opens)
      BY <3>1, <3>2, <3>3 DEF c
    <3> QED
      BY <2>2, <3>1, <3>4
<1>8. CASE SessionOpenFails \/ SessionClose \/ SessionCloseFails \/ SessionThread \/ SessionWakeForNothing
  BY <1>1, <1>8 DEF SessionOpenFails, SessionClose, SessionCloseFails, SessionThread, SessionWakeForNothing,
                    linkVars, clientVars
<1> QED
  BY <1>1, <1>2, <1>3, <1>4, <1>5, <1>6, <1>7, <1>8 DEF SessionNext, allVars, linkVars, clientVars

\* What the server knows of the plugin's callback it keeps for this channel.
LEMMA AcceptedKept ==
    ASSUME NEW i \in Nat, Accepted(i), UNCHANGED opens,
           ready => ready' \/ ~channel', ~channel => ~channel',
           \A j \in DOMAIN back : j < i => j \in DOMAIN back' /\ back'[j] = back[j]
    PROVE  Accepted(i)'
  BY DEF Accepted

LEMMA AcceptedStep == ASSUME LinkInv, [SessionNext]_allVars PROVE AcceptedFirst'
<1> USE DEF LinkInv
<1>0. /\ UpTo(back, opens) /\ opens \in Nat /\ client.n \in Nat /\ client.n <= opens
      /\ back \in Seq(Item) /\ Len(back) \in Nat /\ DOMAIN back = 1 .. Len(back)
      /\ \A i \in 1 .. Len(back) : back[i].n \in Nat /\ back[i].n <= opens
  <2>1. UpTo(back, opens) /\ opens \in Nat /\ client.n \in Nat /\ client.n <= opens
    BY DEF Numbered
  <2>2. back \in Seq(Item) /\ \A i \in 1 .. Len(back) : back[i].n <= opens
    BY <2>1 DEF UpTo
  <2>3. ASSUME NEW i \in 1 .. Len(back) PROVE back[i].n \in Nat
    <3>1. back[i] \in Item
      BY <2>2
    <3> QED
      BY <3>1 DEF Item
  <2> QED
    BY <2>1, <2>2, <2>3
<1>1. CASE UNCHANGED <<opens, back, client, channel, ready>>
  BY <1>1 DEF AcceptedFirst, Accepted
<1>2. CASE SessionOpen
  <2>1. opens' = opens + 1 /\ UNCHANGED <<back, client>>
    BY <1>2 DEF SessionOpen, clientVars
  <2>2. client'.n # opens' /\ \A i \in DOMAIN back' : back'[i].n # opens'
    BY <1>0, <2>1
  <2> QED
    BY <2>2 DEF AcceptedFirst
<1>3. CASE SessionCloseChannel
  <2>1. ~channel'
    BY <1>3 DEF SessionCloseChannel, CloseChannel
  <2> QED
    BY <2>1 DEF AcceptedFirst, Accepted
<1>4. CASE SessionOpenFails \/ SessionClose \/ SessionCloseFails \/ SessionThread \/ SessionWakeForNothing
  <2>1. UNCHANGED <<channel, ready>>
    BY <1>4, ServerKeeps DEF SessionOpenFails, SessionClose, SessionCloseFails, SessionThread,
                             SessionWakeForNothing, Thread
  <2>2. UNCHANGED <<opens, back, client>>
    BY <1>4 DEF SessionOpenFails, SessionClose, SessionCloseFails, SessionThread, SessionWakeForNothing,
                linkVars, clientVars
  <2> QED
    BY <1>1, <2>1, <2>2
<1>5. CASE \E p \in Messages : Send(p)
  BY <1>1, <1>5 DEF Send, serverVars, vars, clientVars
<1>6. CASE Receive
  <2>1. /\ back # <<>> /\ back' = Tail(back) /\ UNCHANGED <<opens, client, channel>>
        /\ ready' = (ready \/ (channel /\ Head(back).n = opens /\ Head(back).what = "created"))
    BY <1>6 DEF Receive, clientVars
  <2>2. /\ Len(back) > 0 /\ Len(back') = Len(back) - 1 /\ DOMAIN back' = 1 .. Len(back) - 1
        /\ \A i \in 1 .. Len(back) - 1 : back'[i] = back[i + 1]
        /\ Head(back) = back[1]
    BY <1>0, <2>1
  <2>3. ASSUME NEW i \in Nat, Accepted(i + 1) PROVE Accepted(i)'
    <3>1. CASE ready \/ ~channel
      BY <2>1, <3>1 DEF Accepted
    <3>2. ASSUME NEW j \in DOMAIN back, j < i + 1, back[j].what = "created", back[j].n = opens
          PROVE  Accepted(i)'
      <4>1. CASE j = 1
        BY <2>1, <2>2, <3>2, <4>1 DEF Accepted
      <4>2. CASE j # 1
        <5>1. j - 1 \in DOMAIN back' /\ j - 1 < i /\ back'[j - 1] = back[j]
          BY <1>0, <2>2, <3>2, <4>2
        <5> QED
          BY <2>1, <3>2, <5>1 DEF Accepted
      <4> QED
        BY <4>1, <4>2
    <3> QED
      BY <2>3, <3>1, <3>2 DEF Accepted
  <2>4. ASSUME NEW i \in DOMAIN back', back'[i].what = "data", back'[i].n = opens'
        PROVE  Accepted(i)'
    <3>1. i \in Nat /\ i + 1 \in DOMAIN back /\ back'[i] = back[i + 1]
      BY <1>0, <2>2
    <3>2. Accepted(i + 1)
      BY <2>1, <2>4, <3>1 DEF AcceptedFirst
    <3> QED
      BY <2>3, <3>1, <3>2
  <2>5. ASSUME client'.n = opens' PROVE Accepted(Len(back) + 1)
    BY <2>1, <2>5 DEF AcceptedFirst
  <2>6. ASSUME client'.n = opens' PROVE Accepted(Len(back) + 1)'
    <3>1. Len(back) \in Nat /\ Len(back) = Len(back') + 1
      BY <1>0, <2>2
    <3>2. PICK k \in Nat : k = Len(back) /\ k = Len(back') + 1
      BY <3>1
    <3>3. Accepted(k)'
      BY <2>3, <2>5, <2>6, <3>2
    <3> QED
      BY <3>2, <3>3 DEF Accepted
  <2> QED
    BY <2>4, <2>6 DEF AcceptedFirst
<1>7. CASE Deliver
  <2> DEFINE e == Head(wire)
             c == Event("created", e.n)
  <2>1. UNCHANGED <<opens, channel, ready>>
    BY <1>7 DEF Deliver, serverVars, vars
  <2>2. e \in Item
    BY <1>7, UpToTail DEF Deliver, Numbered
  <2>3. e.n \in Nat /\ c.what = "created" /\ c.n = e.n
    BY <2>2 DEF Item, Event
  <2>4. \/ e.what = "create" /\ client'.n = e.n /\ back' = Append(back, c)
        \/ e.what # "create" /\ client'.n = client.n /\ back' = back
    BY <1>7 DEF Deliver, Numbered
  <2> HIDE DEF e, c
  <2>5. CASE client'.n = client.n /\ back' = back
    BY <2>1, <2>5 DEF AcceptedFirst, Accepted
  <2>6. CASE client'.n = e.n /\ back' = Append(back, c)
    <3>1. /\ Len(back') = Len(back) + 1 /\ DOMAIN back' = 1 .. Len(back) + 1
          /\ back'[Len(back) + 1] = c /\ \A i \in 1 .. Len(back) : back'[i] = back[i]
      BY <1>0, <2>6
    <3>2. ASSUME NEW i \in Nat, Accepted(i) PROVE Accepted(i)'
      BY <1>0, <2>1, <3>1, <3>2 DEF Accepted
    <3>3. ASSUME NEW i \in DOMAIN back', back'[i].what = "data", back'[i].n = opens'
          PROVE  Accepted(i)'
      <4>1. i \in Nat /\ i \in DOMAIN back /\ back'[i] = back[i]
        BY <1>0, <2>3, <3>1, <3>3
      <4>2. Accepted(i)
        BY <2>1, <3>3, <4>1 DEF AcceptedFirst
      <4> QED
        BY <3>2, <4>1, <4>2
    <3>4. ASSUME client'.n = opens' PROVE Accepted(Len(back) + 1)'
      <4>1. /\ Len(back) + 1 \in DOMAIN back' /\ Len(back) + 1 < Len(back') + 1
            /\ back'[Len(back) + 1].what = "created" /\ back'[Len(back) + 1].n = opens'
        BY <1>0, <2>3, <2>6, <3>1, <3>4
      <4> QED
        BY <4>1 DEF Accepted
    <3> QED
      BY <3>3, <3>4 DEF AcceptedFirst
  <2> QED
    BY <2>4, <2>5, <2>6
<1>8. CASE Dispatch
  <2> DEFINE c == Data(client.n, None, CapsReply)
  <2>1. UNCHANGED <<opens, channel, ready>>
    BY <1>8 DEF Dispatch, serverVars, vars
  <2>2. client'.n = client.n /\ (back' = back \/ back' = Append(back, c))
    BY <1>8, DispatchEffect DEF Numbered
  <2>3. c.n = client.n
    BY DEF Data
  <2> HIDE DEF c
  <2>4. CASE back' = back
    BY <2>1, <2>2, <2>4 DEF AcceptedFirst, Accepted
  <2>5. CASE back' = Append(back, c)
    <3>1. /\ Len(back') = Len(back) + 1 /\ DOMAIN back' = 1 .. Len(back) + 1
          /\ back'[Len(back) + 1] = c /\ \A i \in 1 .. Len(back) : back'[i] = back[i]
      BY <1>0, <2>5
    <3>2. ASSUME NEW i \in Nat, Accepted(i) PROVE Accepted(i)'
      BY <1>0, <2>1, <3>1, <3>2 DEF Accepted
    <3>3. ASSUME NEW i \in DOMAIN back', back'[i].what = "data", back'[i].n = opens'
          PROVE  Accepted(i)'
      <4>1. i \in Nat /\ ((i \in DOMAIN back /\ back'[i] = back[i]) \/ i = Len(back) + 1)
        BY <1>0, <3>1, <3>3
      <4>2. Accepted(i)
        BY <2>1, <2>3, <3>1, <3>3, <4>1 DEF AcceptedFirst
      <4> QED
        BY <3>2, <4>1, <4>2
    <3>4. ASSUME client'.n = opens' PROVE Accepted(Len(back) + 1)'
      <4>1. PICK k \in Nat : k = Len(back) + 1 /\ Len(back') + 1 = k + 1
        BY <1>0, <3>1
      <4>2. Accepted(k)
        BY <2>1, <2>2, <3>4, <4>1 DEF AcceptedFirst
      <4>3. Accepted(k)'
        BY <3>2, <4>2
      <4> QED
        BY <1>0, <3>1, <4>1, <4>3 DEF Accepted
    <3> QED
      BY <3>3, <3>4 DEF AcceptedFirst
  <2> QED
    BY <2>2, <2>4, <2>5
<1> QED
  BY <1>1, <1>2, <1>3, <1>4, <1>5, <1>6, <1>7, <1>8
  DEF SessionNext, allVars, vars, linkVars, clientVars

LEMMA LinkStep == ASSUME LinkInv, [SessionNext]_allVars PROVE LinkInv'
<1>1. IInv'
  BY SessionIsServer, StepIInv DEF LinkInv
<1> QED
  BY <1>1, NumberedStep, AcceptedStep DEF LinkInv

\* The session, with channels that are closed and opened again while packets are
\* under way, is the server of AppListServer: the plugin sends on a channel that
\* it has accepted, and nothing meant for an earlier channel counts for the next
\* (rdpapplist_main.c:128).
THEOREM SessionImplementsServer == SessionSpec => ServerSpec
<1>1. SessionInit => Init
  BY DEF SessionInit
<1> QED
  BY <1>1, InitLinkInv, LinkStep, SessionIsServer, PTL DEF SessionSpec, ServerSpec, Spec

\* So the thread never meets a closed channel in the session either.
THEOREM SessionKeepsChannel == SessionSpec => []ThreadHasChannel
  BY SessionImplementsServer, ThreadNeverOrphaned, PTL DEF ServerSpec
-----------------------------------------------------------------------------
(* The plugin is handed what was sent *)

\* A message on its way to the plugin is a packet that the server has let through.
Passed   == {p \in Messages : Packet(p) # Refused}
SentItem == {e \in Item : /\ e.what \in {"create", "close", "data"}
                          /\ e.n > 0
                          /\ e.what = "data" => e.pdu \in Passed /\ e.words = Packet(e.pdu)}
AnswerItem == {e \in Item : e.what \in {"created", "data"} /\ e.n > 0}

\* What is left of the removal of a provider, which the plugin skips.
Unskipped(p) == Cat(U32(p.flags), OptText(p, "provider"))

\* The plugin works on a whole packet, or on what the removal of a provider has left.
Holds(buf, p) ==
    \/ buf = <<>>
    \/ p \in Passed /\ buf = Packet(p)
    \/ p \in Passed /\ p.cmd = "deleteProvider" /\ buf = Unskipped(p)

Callback == [n : Nat, open : BOOLEAN, handshake : BOOLEAN, buf : Words,
             pdu : Messages \cup {None}]

Reads ==
    /\ client \in Callback
    /\ Holds(client.buf, client.pdu)
    /\ client.buf # <<>> => client.n > 0

Judged ==
    /\ last.outcome \in Outcomes
    /\ last.pdu \in Messages \cup {None}
    /\ TakenAsSent
    /\ RefusedForAReason

LEMMA PassedIsPDU == Passed \subseteq PDUs
  BY SessionAssumption DEF Passed

\* The table of the readers, for a message that was sent.
LEMMA TableOfReaders ==
    ASSUME NEW p \in Passed, NEW t, t = SubSeq(Packet(p), 5, Len(Packet(p)))
    PROVE  /\ Reading["caps"][t] = ReadServerCaps(t)
           /\ Reading["update"][t] = ReadUpdate(t)
           /\ Reading["delete"][t] = ReadDelete(t)
           /\ Reading["associate"][t] = ReadAssociate(t)
<1>1. t \in Bodies
  BY DEF Bodies, Passed
<1> QED
  BY <1>1 DEF Reading

\* What comes first in the capabilities.
LEMMA CapsVersion ==
    ASSUME NEW p \in PDUs, p.cmd = "caps"
    PROVE  Said(p)[1][2] = p.version
<1> DEFINE e == <<"version", p.version>>
           l == Letters(p, "provider")
           m == Letters(p, "uniqueId")
           x == IF p.version >= 4 THEN <<m>> ELSE <<>>
<1>1. e \in Entry /\ l \in Entry /\ m \in Entry
  <2>1. p.version \in Nat /\ "provider" \in Texts /\ "uniqueId" \in Texts
    BY DEF PDUs, Texts
  <2> QED
    BY <2>1, CharsWords DEF Entry, Names
<1>2. Said(p) = <<e, l>> \o x
  BY DEF Said
<1>3. e[2] = p.version
  OBVIOUS
<1> HIDE DEF e, l, m
<1>4. x \in Seq(Entry)
  BY <1>1
<1>5. (<<e, l>> \o x)[1] = e
  <2> HIDE DEF x
  <2>1. PICK s \in Seq(Entry) : s = <<e, l>>
    BY <1>1, TwoEntries
  <2>2. s[1] = e /\ Len(s) = 2
    BY <2>1
  <2>3. \A i \in 1 .. Len(s) + Len(x) : (s \o x)[i] = IF i <= Len(s) THEN s[i] ELSE x[i - Len(s)]
    BY <1>4, ConcatProperties, Zenon
  <2>4. 1 \in 1 .. Len(s) + Len(x) /\ 1 <= Len(s)
    BY <1>4, <2>2
  <2> QED
    BY <2>1, <2>2, <2>3, <2>4
<1> QED
  BY <1>2, <1>3, <1>5

\* A handler's message, read whole or refused for a reason.
LEMMA Answered ==
    ASSUME NEW p \in PDUs, NEW r, NEW t, Come(p, r, t, Said(p))
    PROVE  /\ r.ok => r.rest = t /\ r.got = Said(p)
           /\ ~r.ok => ~Readable(p)
<1>1. At(t, Said(p)).ok = TRUE /\ At(t, Said(p)).rest = t /\ At(t, Said(p)).got = Said(p)
  BY DEF At
<1>2. Fail.ok = FALSE
  BY DEF Fail
<1> QED
  BY <1>1, <1>2 DEF Come

LEMMA DeleteProviderSent ==
    ASSUME NEW p \in PDUs, p.cmd = "deleteProvider", Packet(p) # Refused
    PROVE  \E size \in Nat : Packet(p) = Cat(Header("deleteProvider", size), Unskipped(p))
<1> DEFINE size == 4 + OptSize(p, "provider")
           h == Header("deleteProvider", size)
           f == U32(p.flags)
           a == OptText(p, "provider")
<1>1. p.flags \in Nat /\ "provider" \in Texts /\ "deleteProvider" \in DOMAIN Cmd
  BY DEF PDUs, Texts, Cmd
<1>2. f \in Words /\ a \in Words /\ OptSize(p, "provider") \in Nat
  BY <1>1, OptWords, U32IsWords DEF Words
<1>3. size \in Nat
  BY <1>2
<1>4. h \in Words
  BY <1>1, <1>3, HeaderWords
<1>5. Packet(p) = Cat(Cat(h, f), a)
  BY DEF Packet, SendDeleteProvider, Cat
<1> HIDE DEF size, h, f, a
<1>6. Packet(p) = Cat(h, Cat(f, a))
  BY <1>2, <1>4, <1>5, CatCat
<1> QED
  BY <1>3, <1>6 DEF Unskipped, h, f, a

LEMMA NoWords == <<>> \in Words
  BY DEF Words

\* What the plugin makes of a packet that was sent.
LEMMA PacketRead ==
    ASSUME NEW p \in Passed
    PROVE  \E t \in Words : \E g :
               /\ ReadAppListHeader(Packet(p)) = At(t, g) /\ g[1][2] = Cmd[p.cmd]
               /\ p.cmd = "caps" => Come(p, Reading["caps"][t], Left(p), Said(p))
               /\ p.cmd = "update" => Come(p, Reading["update"][t], Left(p), Said(p))
               /\ p.cmd = "delete" => Come(p, Reading["delete"][t], Left(p), Said(p))
               /\ p.cmd = "associate" => Come(p, Reading["associate"][t], Left(p), Said(p))
               /\ p.cmd = "deleteProvider" => t = Unskipped(p)
<1>1. p \in PDUs /\ Packet(p) # Refused /\ p.cmd \in DOMAIN Cmd
  BY PassedIsPDU DEF Passed, PDUs
<1>2. p.cmd \in {"caps", "update", "delete", "deleteProvider", "associate"}
  BY <1>1 DEF Cmd
<1>3. PICK t \in Words, size \in Nat :
          /\ Packet(p) = Cat(Header(p.cmd, size), t)
          /\ p.cmd = "caps" => Come(p, ReadServerCaps(t), Left(p), Said(p))
          /\ p.cmd = "update" => Come(p, ReadUpdate(t), Left(p), Said(p))
          /\ p.cmd = "delete" => Come(p, ReadDelete(t), Left(p), Said(p))
          /\ p.cmd = "associate" => Come(p, ReadAssociate(t), Left(p), Said(p))
          /\ p.cmd = "deleteProvider" => t = Unskipped(p)
  <2>1. CASE p.cmd = "caps"
    BY <1>1, <2>1, CapsTold DEF Told
  <2>2. CASE p.cmd = "update"
    BY <1>1, <2>2, UpdateTold DEF Told
  <2>3. CASE p.cmd = "delete"
    BY <1>1, <2>3, DeleteTold DEF Told
  <2>4. CASE p.cmd = "associate"
    BY <1>1, <2>4, AssociateTold DEF Told
  <2>5. CASE p.cmd = "deleteProvider"
    <3>1. Unskipped(p) \in Words
      <4>1. p.flags \in Nat /\ "provider" \in Texts
        BY <1>1 DEF PDUs, Texts
      <4>2. U32(p.flags) \in Words /\ OptText(p, "provider") \in Words
        BY <1>1, <4>1, OptWords, U32IsWords DEF Words
      <4> QED
        BY <4>2, CatWords DEF Unskipped
    <3> QED
      BY <1>1, <2>5, <3>1, DeleteProviderSent
  <2> QED
    BY <1>2, <2>1, <2>2, <2>3, <2>4, <2>5
<1>4. /\ SubSeq(Packet(p), 5, Len(Packet(p))) = t
      /\ \E g : ReadAppListHeader(Packet(p)) = At(t, g) /\ g[1][2] = Cmd[p.cmd]
  <2>1. LET w == Cat(Header(p.cmd, size), t)
        IN  /\ SubSeq(w, 5, Len(w)) = t
            /\ \E g : ReadAppListHeader(w) = At(t, g) /\ g[1][2] = Cmd[p.cmd]
    BY <1>1, HeaderRead
  <2> QED
    BY <1>3, <2>1
<1>5. /\ Reading["caps"][t] = ReadServerCaps(t)
      /\ Reading["update"][t] = ReadUpdate(t)
      /\ Reading["delete"][t] = ReadDelete(t)
      /\ Reading["associate"][t] = ReadAssociate(t)
  BY <1>4, TableOfReaders
<1> QED
  BY <1>3, <1>4, <1>5

\* The removal of a provider leaves nothing that is taken for a message: what
\* comes first is its flags, and with the flags of a command it has no text.
LEMMA UnskippedRead ==
    ASSUME NEW p \in PDUs, ReadAppListHeader(Unskipped(p)).ok
    PROVE  ReadAppListHeader(Unskipped(p)).got[1][2] \notin 1 .. 5
<1> DEFINE x == OptText(p, "provider")
           g == Append(<<>>, <<"cmd", p.flags>>)
           r == ReadUINT32(At(x, g), "length")
<1>1. p.flags \in Nat /\ "provider" \in Texts /\ x \in Words
  <2>1. p.flags \in Nat /\ "provider" \in Texts
    BY DEF PDUs, Texts
  <2> QED
    BY <2>1, OptWords
<1>2. ReadAppListHeader(Unskipped(p)) = r
  <2>1. PICK e : e = <<>>
    OBVIOUS
  <2>2. ReadUINT32(At(Cat(U32(p.flags), x), e), "cmd") = At(x, Append(e, <<"cmd", p.flags>>))
    BY <1>1, NumberRead
  <2>3. Start(Unskipped(p)) = At(Cat(U32(p.flags), x), e)
    BY <2>1 DEF Start, At, Unskipped
  <2> QED
    BY <2>1, <2>2, <2>3, Zenon DEF ReadAppListHeader
<1>3. g \in Seq({<<"cmd", p.flags>>}) /\ g # <<>> /\ g[1][2] = p.flags
  OBVIOUS
<1> HIDE DEF g
<1>4. At(x, g).rest = x /\ At(x, g).got = g /\ At(x, g).ok = TRUE
  BY DEF At
<1>5. r.ok
  BY <1>2
<1>6. Len(x) >= 2 /\ \E l : r.got = Append(g, l)
  BY <1>4, <1>5 DEF ReadUINT32, Take, Fail
<1>7. r.got[1][2] = p.flags
  <2>1. PICK l : r.got = Append(g, l)
    BY <1>6
  <2>2. Append(g, l)[1] = g[1]
    BY <1>3, FirstStays
  <2> QED
    BY <1>3, <2>1, <2>2
<1>8. Has(p.flags, Field["provider"])
  <2>1. x # <<>>
    BY <1>6
  <2> QED
    BY <2>1 DEF OptText
<1>9. p.flags \notin 1 .. 5
  <2>1. (p.flags \div 32) % 2 = 1
    BY <1>8 DEF Has, Field
  <2> QED
    BY <1>1, <2>1
<1> QED
  BY <1>2, <1>7, <1>9

\* A round of OnDataReceived's loop keeps what is held a packet or nothing.
LEMMA LeavesJudged ==
    ASSUME Reads, client.buf # <<>>, NEW rest \in Words, NEW outcome \in Outcomes, NEW got,
           Leaves(rest, outcome, got), Holds(rest, client.pdu),
           outcome = "taken" => got = Said(client.pdu),
           outcome = "unreadable" => ~Readable(client.pdu)
    PROVE  Reads' /\ Judged'
<1>1. client \in Callback /\ client.pdu \in Messages \cup {None} /\ client.n > 0
  BY DEF Reads, Callback
<1>2. client' = [client EXCEPT !.buf = rest]
  BY DEF Leaves
<1>3. /\ client' \in Callback /\ client'.buf = rest /\ client'.pdu = client.pdu
      /\ client'.n = client.n
  BY <1>1, <1>2 DEF Callback
<1>4. last' = [pdu |-> client.pdu, outcome |-> outcome, got |-> got]
  BY DEF Leaves
<1>5. last'.pdu = client.pdu /\ last'.outcome = outcome /\ last'.got = got
  BY <1>4
<1>6. Reads'
  BY <1>1, <1>3 DEF Reads
<1>7. Judged'
  BY <1>1, <1>5 DEF Judged, TakenAsSent, RefusedForAReason
<1> QED
  BY <1>6, <1>7

LEMMA BreaksJudged ==
    ASSUME Reads, client.buf # <<>>, NEW outcome \in Outcomes, Breaks(outcome),
           outcome # "taken", outcome = "unreadable" => ~Readable(client.pdu)
    PROVE  Reads' /\ Judged'
<1>1. PICK e \in Words : e = <<>>
  BY NoWords, Zenon
<1>2. Leaves(e, outcome, e) /\ Holds(e, client.pdu)
  BY <1>1 DEF Breaks, Holds
<1> QED
  BY <1>2, LeavesJudged

LEMMA HandlerJudged ==
    ASSUME Reads, client.buf # <<>>, client.pdu \in PDUs, client.pdu.cmd # "caps", NEW r,
           Come(client.pdu, r, Left(client.pdu), Said(client.pdu)), Handler(r)
    PROVE  Reads' /\ Judged'
<1> DEFINE p == client.pdu
<1>1. PICK e \in Words : e = <<>>
  BY NoWords, Zenon
<1>2. Holds(e, p) /\ Left(p) = e
  BY <1>1 DEF Holds, Left
<1>3. /\ r.ok => r.rest = e /\ r.got = Said(p)
      /\ ~r.ok => ~Readable(p)
  BY <1>2, Answered
<1>4. CASE r.ok
  <2>1. Leaves(e, "taken", Said(p))
    BY <1>1, <1>3, <1>4 DEF Handler
  <2> QED
    BY <1>2, <2>1, LeavesJudged DEF Outcomes
<1>5. CASE ~r.ok
  <2>1. Breaks("unreadable")
    BY <1>5 DEF Handler
  <2> QED
    BY <1>3, <1>5, <2>1, BreaksJudged DEF Outcomes
<1> QED
  BY <1>4, <1>5

LEMMA CapsJudged ==
    ASSUME Reads, client.buf # <<>>, client.pdu \in PDUs, client.pdu.cmd = "caps", NEW body,
           Come(client.pdu, Reading["caps"][body], Left(client.pdu), Said(client.pdu)),
           OnCaps(body)
    PROVE  Reads' /\ Judged'
<1> DEFINE p == client.pdu
           r == Reading["caps"][body]
<1>1. PICK e \in Words : e = <<>>
  BY NoWords, Zenon
<1>2. client \in Callback /\ p \in Messages \cup {None} /\ client.n > 0 /\ p.version \in Nat
  BY DEF Reads, Callback, PDUs
<1>3. /\ r.ok => r.rest = Left(p) /\ r.got = Said(p)
      /\ ~r.ok => ~Readable(p)
  BY Answered
<1>4. Said(p)[1][2] = p.version
  BY CapsVersion
<1>5. \/ ~r.ok /\ Breaks("unreadable")
      \/ r.ok /\ Breaks("failed")
      \/ /\ r.ok
         /\ client' = [client EXCEPT !.buf = <<>>, !.handshake = FALSE]
         /\ last' = [pdu |-> client.pdu, outcome |-> "failed", got |-> <<>>]
      \/ /\ r.ok
         /\ r.got[1][2] >= ChannelVersion
         /\ client' = [client EXCEPT !.buf = r.rest, !.handshake = TRUE]
         /\ last' = [pdu |-> client.pdu, outcome |-> "taken", got |-> r.got]
  BY DEF OnCaps
<1> HIDE DEF r
<1>6. CASE ~r.ok /\ Breaks("unreadable")
  BY <1>3, <1>6, BreaksJudged DEF Outcomes
<1>7. CASE r.ok /\ Breaks("failed")
  BY <1>7, BreaksJudged DEF Outcomes
<1>8. ASSUME NEW h \in BOOLEAN, NEW outcome \in {"failed", "taken"}, NEW got,
             outcome = "taken" => got = Said(p),
             client' = [client EXCEPT !.buf = e, !.handshake = h],
             last' = [pdu |-> client.pdu, outcome |-> outcome, got |-> got]
      PROVE  Reads' /\ Judged'
  <2>1. /\ client' \in Callback /\ client'.buf = e /\ client'.pdu = client.pdu
        /\ client'.n = client.n
    BY <1>2, <1>8 DEF Callback
  <2>2. last'.pdu = client.pdu /\ last'.outcome = outcome /\ last'.got = got
    BY <1>8
  <2>3. Reads'
    BY <1>1, <2>1 DEF Reads, Holds
  <2>4. Judged'
    BY <1>2, <1>8, <2>2 DEF Judged, TakenAsSent, RefusedForAReason, Outcomes
  <2> QED
    BY <2>3, <2>4
<1>9. CASE client' = [client EXCEPT !.buf = <<>>, !.handshake = FALSE]
           /\ last' = [pdu |-> client.pdu, outcome |-> "failed", got |-> <<>>]
  <2>1. client' = [client EXCEPT !.buf = e, !.handshake = FALSE]
        /\ last' = [pdu |-> client.pdu, outcome |-> "failed", got |-> e]
    BY <1>1, <1>9
  <2> QED
    BY <1>8, <2>1
<1>10. CASE /\ r.ok
            /\ r.got[1][2] >= ChannelVersion
            /\ client' = [client EXCEPT !.buf = r.rest, !.handshake = TRUE]
            /\ last' = [pdu |-> client.pdu, outcome |-> "taken", got |-> r.got]
  <2>1. r.rest = e
    <3>1. p.version >= 4
      BY <1>3, <1>4, <1>10 DEF ChannelVersion
    <3>2. Left(p) = <<>>
      BY <1>2, <3>1 DEF Left
    <3> QED
      BY <1>1, <1>3, <1>10, <3>2
  <2>2. client' = [client EXCEPT !.buf = e, !.handshake = TRUE]
        /\ last' = [pdu |-> client.pdu, outcome |-> "taken", got |-> Said(p)]
    BY <1>3, <1>10, <2>1
  <2> QED
    BY <1>8, <2>2
<1> QED
  BY <1>5, <1>6, <1>7, <1>9, <1>10

\* Whatever comes up to a handler, in whatever state of the handshake.
LEMMA DispatchJudged == ASSUME Reads, Dispatch PROVE Reads' /\ Judged'
<1> DEFINE p == client.pdu
           header == ReadAppListHeader(client.buf)
           body   == header.rest
           cmd    == header.got[1][2]
<1>1. client.buf # <<>> /\ Holds(client.buf, p)
  BY DEF Dispatch, Reads
<1>2. /\ ~header.ok => Breaks("unreadable")
      /\ header.ok /\ cmd = Cmd.caps => OnCaps(body)
      /\ header.ok /\ cmd # Cmd.caps =>
             \/ Breaks("early")
             \/ CASE cmd = Cmd.update         -> Handler(Reading["update"][body])
                  [] cmd = Cmd.delete         -> Handler(Reading["delete"][body])
                  [] cmd = Cmd.associate      -> Handler(Reading["associate"][body])
                  [] cmd = Cmd.deleteProvider -> Leaves(body, "ignored", <<>>)
                  [] OTHER                    -> Breaks("unreadable")
  BY DEF Dispatch
<1>3. p \in Passed /\ p \in PDUs
  BY <1>1, PassedIsPDU DEF Holds
<1>4. CASE client.buf = Packet(p)
  <2>1. PICK t \in Words : \E g :
               /\ header = At(t, g) /\ g[1][2] = Cmd[p.cmd]
               /\ p.cmd = "caps" => Come(p, Reading["caps"][t], Left(p), Said(p))
               /\ p.cmd = "update" => Come(p, Reading["update"][t], Left(p), Said(p))
               /\ p.cmd = "delete" => Come(p, Reading["delete"][t], Left(p), Said(p))
               /\ p.cmd = "associate" => Come(p, Reading["associate"][t], Left(p), Said(p))
               /\ p.cmd = "deleteProvider" => t = Unskipped(p)
    BY <1>3, <1>4, PacketRead
  <2>2. header.ok = TRUE /\ body = t /\ cmd = Cmd[p.cmd]
    BY <2>1 DEF At
  <2>3. p.cmd \in {"caps", "update", "delete", "deleteProvider", "associate"}
    BY <1>3 DEF PDUs, Cmd
  <2> HIDE DEF header, body, cmd
  <2>4. CASE p.cmd = "caps"
    <3>1. OnCaps(t)
      BY <1>2, <2>2, <2>4 DEF Cmd
    <3> QED
      BY <1>1, <1>3, <2>1, <2>4, <3>1, CapsJudged
  <2>5. ASSUME p.cmd # "caps" PROVE header.ok /\ cmd # Cmd.caps
    BY <2>2, <2>3, <2>5 DEF Cmd
  <2>6. CASE Breaks("early")
    BY <1>1, <2>6, BreaksJudged DEF Outcomes
  <2>7. CASE p.cmd = "update" /\ ~Breaks("early")
    <3>1. Handler(Reading["update"][t])
      BY <1>2, <2>2, <2>5, <2>7 DEF Cmd
    <3> QED
      BY <1>1, <1>3, <2>1, <2>7, <3>1, HandlerJudged
  <2>8. CASE p.cmd = "delete" /\ ~Breaks("early")
    <3>1. Handler(Reading["delete"][t])
      BY <1>2, <2>2, <2>5, <2>8 DEF Cmd
    <3> QED
      BY <1>1, <1>3, <2>1, <2>8, <3>1, HandlerJudged
  <2>9. CASE p.cmd = "associate" /\ ~Breaks("early")
    <3>1. Handler(Reading["associate"][t])
      BY <1>2, <2>2, <2>5, <2>9 DEF Cmd
    <3> QED
      BY <1>1, <1>3, <2>1, <2>9, <3>1, HandlerJudged
  <2>10. CASE p.cmd = "deleteProvider" /\ ~Breaks("early")
    <3>1. Leaves(t, "ignored", <<>>)
      BY <1>2, <2>2, <2>5, <2>10 DEF Cmd
    <3>2. Holds(t, p)
      BY <1>3, <2>1, <2>10 DEF Holds
    <3>3. PICK e : e = <<>>
      OBVIOUS
    <3>4. Leaves(t, "ignored", e)
      BY <3>1, <3>3
    <3> QED
      BY <1>1, <3>2, <3>4, LeavesJudged DEF Outcomes
  <2> QED
    BY <2>3, <2>4, <2>6, <2>7, <2>8, <2>9, <2>10
<1>5. CASE p.cmd = "deleteProvider" /\ client.buf = Unskipped(p)
  <2>1. header.ok => cmd \notin 1 .. 5
    BY <1>3, <1>5, UnskippedRead
  <2>2. ~Readable(p)
    BY <1>5 DEF Readable
  <2> HIDE DEF header, body, cmd
  <2>3. Breaks("unreadable") \/ Breaks("early")
    <3>1. CASE ~header.ok
      BY <1>2, <3>1
    <3>2. CASE header.ok
      <4>1. cmd # 1 /\ cmd # 2 /\ cmd # 3 /\ cmd # 4 /\ cmd # 5
        BY <2>1, <3>2
      <4> QED
        BY <1>2, <3>2, <4>1 DEF Cmd
    <3> QED
      BY <3>1, <3>2
  <2> QED
    BY <1>1, <2>2, <2>3, BreaksJudged DEF Outcomes
<1> QED
  BY <1>1, <1>4, <1>5 DEF Holds

\* Nothing is sent before a channel is opened, and its creation is told first.
Begins ==
    /\ opens \in 0 .. MaxOpens
    /\ sends \in 0 .. MaxMessages
    /\ channel => opens > 0
    /\ \/ client.n > 0
       \/ opens = 0 /\ wire = <<>>
       \/ wire # <<>> /\ Head(wire).what = "create"

\* What is under way, and what the server's channel holds.
Carries ==
    /\ wire \in Seq(SentItem)
    /\ back \in Seq(AnswerItem)
    /\ inbox \in Seq(Words)
    /\ Len(inbox) = arrived - taken

\* The inductive invariant of the session.
SessionInv == LinkInv /\ Begins /\ Carries /\ Reads /\ Judged

LEMMA InitSessionInv == SessionInit => SessionInv
<1> SUFFICES ASSUME SessionInit PROVE SessionInv
  OBVIOUS
<1>1. Begins
  BY SessionAssumption, ServerAssumption DEF SessionInit, Init, Begins
<1>2. Carries
  BY DEF SessionInit, Init, Carries
<1>3. Reads
  BY NoWords DEF SessionInit, Reads, Callback, Holds
<1>4. Judged
  BY DEF SessionInit, Judged, Outcomes, TakenAsSent, RefusedForAReason
<1> QED
  BY <1>1, <1>2, <1>3, <1>4, InitLinkInv DEF SessionInv

LEMMA BeginsStep == ASSUME SessionInv, [SessionNext]_allVars PROVE Begins'
<1> USE DEF Begins
<1>0. /\ client \in Callback /\ wire \in Seq(SentItem) /\ opens \in Nat /\ sends \in Nat
      /\ MaxOpens \in Nat /\ MaxMessages \in Nat
  BY SessionAssumption, ServerAssumption DEF SessionInv, Reads, Carries
<1>1. CASE SessionOpen
  <2>1. /\ opens < MaxOpens /\ opens' = opens + 1 /\ UNCHANGED <<sends, client>>
        /\ \/ wire' = Append(wire, Event("create", opens'))
           \/ wire' = wire \o <<Event("create", opens'), Event("close", opens')>>
    BY <1>1 DEF SessionOpen, clientVars
  <2>2. opens' \in 0 .. MaxOpens /\ opens' > 0
    BY <1>0, <2>1
  <2> DEFINE c == Event("create", opens')
             z == Event("close", opens')
  <2>3. c.what = "create" /\ c \in SentItem /\ z \in SentItem
    <3>1. c \in Item /\ z \in Item
      BY <1>0, <2>2, EventItem DEF FramedItem
    <3> QED
      BY <2>2, <3>1 DEF SentItem, Event
  <2> HIDE DEF c, z
  <2>4. /\ wire' # <<>> /\ wire # <<>> => Head(wire') = Head(wire)
        /\ wire = <<>> => Head(wire') = c
    <3>1. CASE wire' = Append(wire, c)
      BY <1>0, <2>3, <3>1
    <3>2. CASE wire' = wire \o <<c, z>>
      BY <1>0, <2>3, <3>2
    <3> QED
      BY <2>1, <3>1, <3>2 DEF c, z
  <2> QED
    BY <2>1, <2>2, <2>3, <2>4 DEF SessionInv
<1>2. CASE SessionCloseChannel
  <2>1. UNCHANGED <<opens, sends, client>> /\ channel' = FALSE
    BY <1>2 DEF SessionCloseChannel, CloseChannel, clientVars
  <2>2. wire' = wire \/ (channel /\ wire' = Append(wire, Event("close", opens)))
    BY <1>2 DEF SessionCloseChannel
  <2>3. wire # <<>> => wire' # <<>> /\ Head(wire') = Head(wire)
    BY <1>0, <2>2
  <2> QED
    BY <2>1, <2>2, <2>3 DEF SessionInv
<1>3. ASSUME NEW p \in Messages, Send(p) PROVE Begins'
  <2>1. /\ channel /\ sends < MaxMessages /\ sends' = sends + 1 /\ UNCHANGED <<opens, client, channel>>
        /\ wire' = wire \/ wire' = Append(wire, Data(opens, p, Packet(p)))
    BY <1>3 DEF Send, serverVars, vars, clientVars
  <2>2. wire # <<>> => wire' # <<>> /\ Head(wire') = Head(wire)
    BY <1>0, <2>1
  <2>3. sends' \in 0 .. MaxMessages
    BY <1>0, <2>1
  <2> QED
    BY <2>1, <2>2, <2>3 DEF SessionInv
<1>4. CASE Deliver
  <2> DEFINE e == Head(wire)
  <2>1. /\ wire # <<>> /\ wire' = Tail(wire) /\ UNCHANGED <<opens, sends, channel>>
        /\ client' = CASE e.what = "create" -> [n |-> e.n, open |-> TRUE, handshake |-> FALSE,
                                                buf |-> <<>>, pdu |-> None]
                       [] e.what = "close"  -> [client EXCEPT !.open = FALSE, !.pdu = None]
                       [] OTHER             -> [client EXCEPT !.buf = e.words, !.pdu = e.pdu]
    BY <1>4 DEF Deliver, serverVars, vars
  <2>2. e \in SentItem
    BY <1>0, <2>1
  <2>3. e.n > 0
    BY <2>2 DEF SentItem
  <2> HIDE DEF e
  <2>4. CASE e.what = "create"
    <3>1. client'.n = e.n
      BY <2>1, <2>4
    <3> QED
      BY <2>1, <2>3, <3>1 DEF SessionInv
  <2>5. CASE e.what # "create"
    <3>1. client.n > 0
      BY <2>1, <2>5 DEF SessionInv, e
    <3>2. client'.n = client.n
      BY <1>0, <2>1, <2>5 DEF Callback
    <3> QED
      BY <2>1, <3>1, <3>2 DEF SessionInv
  <2> QED
    BY <2>4, <2>5
<1>5. CASE Dispatch
  <2>1. UNCHANGED <<opens, sends, channel, wire>> /\ client'.n = client.n
    BY <1>0, <1>5, DispatchEffect DEF Dispatch, serverVars, vars, Callback
  <2> QED
    BY <2>1 DEF SessionInv
<1>6. CASE UNCHANGED <<opens, sends, channel, wire, client>>
  BY <1>6 DEF SessionInv
<1>7. CASE SessionOpenFails \/ SessionClose \/ SessionCloseFails \/ SessionThread \/ SessionWakeForNothing
  <2>1. UNCHANGED channel
    BY <1>7, ServerKeeps DEF SessionOpenFails, SessionClose, SessionCloseFails, SessionThread,
                             SessionWakeForNothing, Thread
  <2> QED
    BY <1>6, <1>7, <2>1 DEF SessionOpenFails, SessionClose, SessionCloseFails, SessionThread, SessionWakeForNothing,
                            linkVars, clientVars
<1>8. CASE Receive
  BY <1>6, <1>8 DEF Receive, clientVars
<1> QED
  BY <1>1, <1>2, <1>3, <1>4, <1>5, <1>6, <1>7, <1>8
  DEF SessionNext, allVars, vars, linkVars, clientVars

LEMMA ReadsStep == ASSUME SessionInv, [SessionNext]_allVars PROVE Reads' /\ Judged'
<1>0. Reads /\ Judged /\ wire \in Seq(SentItem)
  BY DEF SessionInv, Carries
<1>1. CASE UNCHANGED <<client, last>>
  BY <1>0, <1>1 DEF Reads, Judged, TakenAsSent, RefusedForAReason
<1>2. CASE Dispatch
  BY <1>0, <1>2, DispatchJudged
<1>3. CASE Deliver
  <2> DEFINE e == Head(wire)
  <2>1. /\ wire # <<>> /\ UNCHANGED last
        /\ client' = CASE e.what = "create" -> [n |-> e.n, open |-> TRUE, handshake |-> FALSE,
                                                buf |-> <<>>, pdu |-> None]
                       [] e.what = "close"  -> [client EXCEPT !.open = FALSE, !.pdu = None]
                       [] OTHER             -> [client EXCEPT !.buf = e.words, !.pdu = e.pdu]
    BY <1>3 DEF Deliver
  <2>2. e \in SentItem
    BY <1>0, <2>1
  <2>3. /\ e.n \in Nat /\ e.n > 0 /\ e.what \in {"create", "close", "data"}
        /\ e.what = "data" => e.pdu \in Passed /\ e.words = Packet(e.pdu) /\ e.words \in Words
    BY <2>2 DEF SentItem, Item, Words
  <2>4. client \in Callback /\ client.n \in Nat
    BY <1>0 DEF Reads, Callback
  <2>5. e.what # "create" => client.n > 0
    BY <2>1, <2>4 DEF SessionInv, Begins
  <2>6. Judged'
    BY <1>0, <2>1 DEF Judged, TakenAsSent, RefusedForAReason
  <2> HIDE DEF e
  <2>7. CASE e.what = "create"
    <3>1. client' = [n |-> e.n, open |-> TRUE, handshake |-> FALSE, buf |-> <<>>, pdu |-> None]
      BY <2>1, <2>7
    <3> QED
      BY <2>3, <2>6, <3>1, NoWords DEF Reads, Callback, Holds
  <2>8. CASE e.what = "close"
    <3>1. client' = [client EXCEPT !.open = FALSE, !.pdu = None]
      BY <2>1, <2>8
    <3>2. client.buf = <<>>
      BY <1>3 DEF Deliver
    <3>3. client' \in Callback /\ client'.buf = client.buf
      BY <2>4, <3>1 DEF Callback
    <3> QED
      BY <2>6, <3>2, <3>3 DEF Reads, Holds
  <2>9. CASE e.what = "data"
    <3>1. client' = [client EXCEPT !.buf = e.words, !.pdu = e.pdu]
      BY <2>1, <2>9
    <3>2. e.pdu \in Messages
      BY <2>3, <2>9 DEF Passed
    <3>3. client' \in Callback /\ client'.buf = e.words /\ client'.pdu = e.pdu /\ client'.n = client.n
      BY <2>3, <2>4, <2>9, <3>1, <3>2 DEF Callback
    <3> QED
      BY <2>3, <2>5, <2>6, <2>9, <3>3 DEF Reads, Holds
  <2> QED
    BY <2>3, <2>7, <2>8, <2>9
<1>4. CASE SessionOpen \/ SessionCloseChannel \/ (\E p \in Messages : Send(p)) \/ Receive
  BY <1>1, <1>4 DEF SessionOpen, SessionCloseChannel, Send, Receive, clientVars
<1>5. CASE SessionOpenFails \/ SessionClose \/ SessionCloseFails \/ SessionThread \/ SessionWakeForNothing
  BY <1>1, <1>5 DEF SessionOpenFails, SessionClose, SessionCloseFails, SessionThread, SessionWakeForNothing, clientVars
<1> QED
  BY <1>1, <1>2, <1>3, <1>4, <1>5 DEF SessionNext, allVars, clientVars

LEMMA CarriesStep == ASSUME SessionInv, [SessionNext]_allVars PROVE Carries'
<1>0. /\ wire \in Seq(SentItem) /\ back \in Seq(AnswerItem) /\ inbox \in Seq(Words)
      /\ Len(inbox) = arrived - taken /\ arrived \in Nat /\ taken \in 0 .. arrived
      /\ opens \in Nat /\ (channel => opens > 0) /\ client \in Callback
  <2>1. arrived \in Nat /\ taken \in 0 .. arrived
    BY ServerAssumption DEF SessionInv, LinkInv, IInv, TypeOK
  <2> QED
    BY <2>1 DEF SessionInv, Carries, Begins, Reads
<1>1. CASE UNCHANGED <<wire, back, inbox, arrived, taken>>
  BY <1>0, <1>1 DEF Carries
<1>2. CASE SessionOpen
  <2>1. /\ opens' = opens + 1 /\ UNCHANGED back
        /\ \/ wire' = Append(wire, Event("create", opens')) /\ inbox' = <<>>
              /\ arrived' = 0 /\ taken' = 0
           \/ wire' = wire \o <<Event("create", opens'), Event("close", opens')>>
              /\ UNCHANGED <<inbox, arrived, taken>>
    BY <1>2 DEF SessionOpen, Open, OpenFails
  <2> DEFINE c == Event("create", opens')
             z == Event("close", opens')
  <2>2. c \in SentItem /\ z \in SentItem
    <3>1. opens' \in Nat /\ opens' > 0
      BY <1>0, <2>1
    <3>2. c \in Item /\ z \in Item
      BY <3>1, EventItem DEF FramedItem
    <3> QED
      BY <3>1, <3>2 DEF SentItem, Event
  <2>3. Append(wire, c) \in Seq(SentItem) /\ wire \o <<c, z>> \in Seq(SentItem)
    <3> HIDE DEF c, z
    <3> QED
      BY <1>0, <2>2
  <2>4. wire' \in Seq(SentItem)
    BY <2>1, <2>3
  <2>5. inbox' \in Seq(Words) /\ Len(inbox') = arrived' - taken'
    <3>1. CASE inbox' = <<>> /\ arrived' = 0 /\ taken' = 0
      BY <3>1
    <3>2. CASE UNCHANGED <<inbox, arrived, taken>>
      BY <1>0, <3>2
    <3> QED
      BY <2>1, <3>1, <3>2
  <2> QED
    BY <1>0, <2>1, <2>4, <2>5 DEF Carries
<1>3. CASE SessionCloseChannel
  <2> DEFINE z == Event("close", opens)
  <2>1. UNCHANGED <<back, inbox, arrived, taken>>
    BY <1>3 DEF SessionCloseChannel, CloseChannel
  <2>2. wire' = wire \/ (channel /\ wire' = Append(wire, z))
    BY <1>3 DEF SessionCloseChannel
  <2>3. channel => z \in SentItem
    BY <1>0, EventItem DEF FramedItem, SentItem, Event
  <2> HIDE DEF z
  <2>4. wire' \in Seq(SentItem)
    <3>1. CASE wire' = wire
      BY <1>0, <3>1
    <3>2. CASE channel /\ wire' = Append(wire, z)
      BY <1>0, <2>3, <3>2, AppendProperties
    <3> QED
      BY <2>2, <3>1, <3>2
  <2> QED
    BY <1>0, <2>1, <2>4 DEF Carries
<1>4. ASSUME NEW p \in Messages, Send(p) PROVE Carries'
  <2> DEFINE d == Data(opens, p, Packet(p))
  <2>1. channel /\ UNCHANGED <<back, inbox, arrived, taken>>
    BY <1>4 DEF Send, serverVars, vars
  <2>2. wire' = wire \/ (Packet(p) # Refused /\ wire' = Append(wire, d))
    BY <1>4 DEF Send
  <2>3. Packet(p) # Refused => d \in SentItem
    <3> SUFFICES ASSUME Packet(p) # Refused PROVE Data(opens, p, Packet(p)) \in SentItem
      OBVIOUS
    <3>1. Data(opens, p, Packet(p)) \in Item /\ p \in Passed /\ opens > 0
      BY <1>0, <2>1, PacketItem DEF FramedItem, Passed
    <3> QED
      BY <3>1 DEF Data, SentItem
  <2> HIDE DEF d
  <2>4. wire' \in Seq(SentItem)
    <3>1. CASE wire' = wire
      BY <1>0, <3>1
    <3>2. CASE Packet(p) # Refused /\ wire' = Append(wire, d)
      BY <1>0, <2>3, <3>2, AppendProperties
    <3> QED
      BY <2>2, <3>1, <3>2
  <2> QED
    BY <1>0, <2>1, <2>4 DEF Carries
<1>5. CASE SessionThread
  <2>1. UNCHANGED <<wire, back>>
    BY <1>5 DEF SessionThread
  <2>2. CASE UNCHANGED <<inbox, arrived, taken>>
    BY <1>1, <2>1, <2>2
  <2>3. CASE HandleMessages /\ taken' # taken
    <3>1. taken' = taken + 1 /\ arrived > taken /\ arrived' = arrived
      BY <2>3 DEF HandleMessages
    <3>2. inbox' = Tail(inbox)
      BY <1>5, <2>3 DEF SessionThread, Stopped, Wake, HandleMessages
    <3>3. inbox # <<>>
      BY <1>0, <3>1
    <3>4. inbox' \in Seq(Words) /\ Len(inbox') = Len(inbox) - 1
      BY <1>0, <3>2, <3>3
    <3>5. Len(inbox') = arrived' - taken'
      BY <1>0, <3>1, <3>4
    <3> QED
      BY <1>0, <2>1, <3>4, <3>5 DEF Carries
  <2>4. \/ UNCHANGED <<inbox, arrived, taken>>
        \/ HandleMessages /\ taken' # taken
    BY <1>5 DEF SessionThread, Stopped, Wake, HandleMessages
  <2> QED
    BY <2>2, <2>3, <2>4
<1>6. CASE Receive
  <2> DEFINE e == Head(back)
             mine == channel /\ e.n = opens
  <2>1. /\ back # <<>> /\ back' = Tail(back) /\ UNCHANGED <<wire, taken>>
        /\ arrived' = IF mine /\ e.what = "data" THEN arrived + 1 ELSE arrived
        /\ inbox' = IF mine /\ e.what = "data" THEN Append(inbox, e.words) ELSE inbox
    BY <1>6 DEF Receive
  <2>2. e \in AnswerItem /\ back' \in Seq(AnswerItem)
    BY <1>0, <2>1
  <2>3. e.words \in Words
    BY <2>2 DEF AnswerItem, Item, Words
  <2> HIDE DEF e
  <2>4. inbox' \in Seq(Words) /\ Len(inbox') = arrived' - taken'
    <3>1. Append(inbox, e.words) \in Seq(Words) /\ Len(Append(inbox, e.words)) = Len(inbox) + 1
      BY <1>0, <2>3
    <3> QED
      BY <1>0, <2>1, <3>1
  <2> QED
    BY <1>0, <2>1, <2>2, <2>4 DEF Carries
<1>7. CASE Deliver
  <2> DEFINE e == Head(wire)
             c == Event("created", e.n)
  <2>1. /\ wire # <<>> /\ wire' = Tail(wire) /\ UNCHANGED <<inbox, arrived, taken>>
        /\ back' = back \/ back' = Append(back, c)
    BY <1>7 DEF Deliver, serverVars, vars
  <2>2. e \in SentItem /\ wire' \in Seq(SentItem)
    BY <1>0, <2>1
  <2>3. e.n \in Nat /\ e.n > 0
    BY <2>2 DEF SentItem, Item
  <2>4. c \in AnswerItem
    <3>1. c \in Item
      BY <2>3, EventItem DEF FramedItem
    <3> QED
      BY <2>3, <3>1 DEF AnswerItem, Event
  <2> HIDE DEF c, e
  <2>5. back' \in Seq(AnswerItem)
    <3>1. Append(back, c) \in Seq(AnswerItem)
      BY <1>0, <2>4, AppendProperties
    <3> QED
      BY <1>0, <2>1, <3>1
  <2> QED
    BY <1>0, <2>1, <2>2, <2>5 DEF Carries
<1>8. CASE Dispatch
  <2> DEFINE c == Data(client.n, None, CapsReply)
  <2>1. UNCHANGED <<wire, inbox, arrived, taken>>
    BY <1>8 DEF Dispatch, serverVars, vars
  <2>2. back' = back \/ back' = Append(back, c)
    BY <1>0, <1>8, DispatchEffect DEF Callback
  <2>3. c \in AnswerItem
    <3>1. client.n \in Nat /\ client.n > 0
      BY <1>0, <1>8 DEF SessionInv, Reads, Dispatch, Callback
    <3>2. c \in Item
      BY <3>1, ReplyItem
    <3> QED
      BY <3>1, <3>2 DEF AnswerItem, Data
  <2> HIDE DEF c
  <2>4. back' \in Seq(AnswerItem)
    <3>1. Append(back, c) \in Seq(AnswerItem)
      BY <1>0, <2>3, AppendProperties
    <3> QED
      BY <1>0, <2>2, <3>1
  <2> QED
    BY <1>0, <2>1, <2>4 DEF Carries
<1>9. CASE SessionOpenFails \/ SessionClose \/ SessionCloseFails \/ SessionWakeForNothing
  BY <1>1, <1>9 DEF SessionOpenFails, SessionClose, SessionCloseFails, SessionWakeForNothing, linkVars,
                    OpenFails, Close, CloseFails, WakeForNothing
<1> QED
  BY <1>1, <1>2, <1>3, <1>4, <1>5, <1>6, <1>7, <1>8, <1>9
  DEF SessionNext, allVars, vars, linkVars

LEMMA SessionInvHolds == SessionSpec => []SessionInv
<1>1. SessionInv /\ [SessionNext]_allVars => SessionInv'
  <2> SUFFICES ASSUME SessionInv, [SessionNext]_allVars PROVE SessionInv'
    OBVIOUS
  <2>1. LinkInv'
    BY LinkStep DEF SessionInv
  <2> QED
    BY <2>1, BeginsStep, CarriesStep, ReadsStep DEF SessionInv
<1> QED
  BY <1>1, InitSessionInv, PTL DEF SessionSpec

\* Whatever the compositor sends, and however often the channel is closed, opened
\* again or broken off in the middle, a handler that has read its message has read
\* what was sent, field by field: the readers and the writers agree, and the rest
\* that the removal of a provider leaves is not taken for a message
\* (WSLDVCCallback.cpp:1054).
THEOREM ReadsWhatWasWritten == SessionSpec => []TakenAsSent
<1>1. SessionInv => TakenAsSent
  BY DEF SessionInv, Judged
<1> QED
  BY <1>1, SessionInvHolds, PTL

\* A message that the server has let through is refused by a reader of the plugin
\* only when a flag or a text is missing or a text is too long, whatever the limit
\* of a text is (WSLDVCCallback.cpp:200).
THEOREM RefusesForAReason == SessionSpec => []RefusedForAReason
<1>1. SessionInv => RefusedForAReason
  BY DEF SessionInv, Judged
<1> QED
  BY <1>1, SessionInvHolds, PTL

\* The state of the session keeps its types: what is under way is of a channel that
\* was opened, and the server's channel holds exactly what has arrived and was not
\* taken (rdpapplist_main.c:149).
THEOREM LinkTypes == SessionSpec => []LinkTypeOK
<1>1. SessionInv => LinkTypeOK
  <2> SUFFICES ASSUME SessionInv PROVE LinkTypeOK
    OBVIOUS
  <2>1. opens \in Nat /\ opens \in 0 .. MaxOpens /\ sends \in 0 .. MaxMessages
    BY SessionAssumption DEF SessionInv, Begins
  <2>2. ASSUME NEW i \in DOMAIN wire
        PROVE  /\ wire[i].what \in {"create", "data", "close"}
               /\ wire[i].n \in 1 .. opens
               /\ wire[i].pdu \in Messages \cup {None}
    <3>1. wire[i] \in SentItem /\ wire[i].n <= opens
      BY DEF SessionInv, Carries, LinkInv, Numbered, UpTo
    <3> QED
      BY <2>1, <3>1 DEF SentItem, Item
  <2>3. ASSUME NEW i \in DOMAIN back
        PROVE  back[i].what \in {"created", "data"} /\ back[i].n \in 1 .. opens
    <3>1. back[i] \in AnswerItem /\ back[i].n <= opens
      BY DEF SessionInv, Carries, LinkInv, Numbered, UpTo
    <3> QED
      BY <2>1, <3>1 DEF AnswerItem, Item
  <2>4. /\ client.n \in 0 .. opens /\ client.open \in BOOLEAN /\ client.handshake \in BOOLEAN
        /\ client.pdu \in Messages \cup {None}
    BY <2>1 DEF SessionInv, LinkInv, Numbered, Reads, Callback
  <2>5. Len(inbox) = arrived - taken
    BY DEF SessionInv, Carries
  <2>6. last.outcome \in Outcomes /\ last.pdu \in Messages \cup {None}
    BY DEF SessionInv, Judged
  <2> QED
    BY <2>1, <2>2, <2>3, <2>4, <2>5, <2>6 DEF LinkTypeOK
<1> QED
  BY <1>1, SessionInvHolds, PTL
=============================================================================
