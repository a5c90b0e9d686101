----------------------------- MODULE AppListWire -----------------------------
(***************************************************************************)
(* The messages of the application list channel as they are written by the *)
(* distribution (rdpapplist/server/rdpapplist_main.c) and read by the      *)
(* plugin (WSLDVCCallback.cpp, rdpapplist.h), and the plugin's answer.     *)
(* The two ends share no code: each has its own idea of the fields, of     *)
(* their order and of their limits.                                        *)
(*                                                                         *)
(* A packet is a sequence of 16-bit words, low word first.  A text is one  *)
(* letter, its field's, again and again: its length and its place matter.  *)
(* Lengths are in bytes and even.                                          *)
(***************************************************************************)
EXTENDS Integers, Sequences

CONSTANT MaxString  \* RDPAPPLIST_MAX_STRING_SIZE, in bytes

ASSUME WireAssumption == MaxString \in Nat

Cmd == [caps |-> 1, update |-> 2, delete |-> 3, deleteProvider |-> 4, associate |-> 5]

Field == [id |-> 1, group |-> 2, exec |-> 4, desc |-> 8, icon |-> 16,
          provider |-> 32, workingDir |-> 64, windowId |-> 128]

ChannelVersion == 4
HeaderSize     == 8
LangSize       == 32

Texts  == {"provider", "uniqueId", "id", "group", "exec", "workingDir", "desc"}
NoIcon == -1

\* A message as the compositor hands it over; icon: the bytes of its image.
Even == {n \in Nat : n % 2 = 0}
PDUs == [cmd : DOMAIN Cmd, version : Nat, flags : Nat, text : [Texts -> Even],
         window : Nat, icon : Even \cup {NoIcon}]

Has(flags, bit)     == (flags \div bit) % 2 = 1
HasAll(flags, bits) == \A b \in bits : Has(flags, b)
-----------------------------------------------------------------------------
(* Writing *)

U16(n) == <<n>>
U32(n) == <<n % 65536, n \div 65536>>

Header(cmd, size) == U32(Cmd[cmd]) \o U32(HeaderSize + size)

Letter == [provider |-> 101, uniqueId |-> 102, id |-> 103, group |-> 104,
           exec |-> 105, workingDir |-> 106, desc |-> 107]

Chars(f, n)   == [i \in 1 .. n \div 2 |-> Letter[f]]
Text(p, f)    == U16(p.text[f]) \o Chars(f, p.text[f])
OptText(p, f) == IF Has(p.flags, Field[f]) THEN Text(p, f) ELSE <<>>
OptSize(p, f) == IF Has(p.flags, Field[f]) THEN 2 + p.text[f] ELSE 0

TooLarge(p, fields) == \E f \in fields : Has(p.flags, Field[f]) /\ p.text[f] > MaxString

\* A message that is not sent.
Refused == <<>>

\* The length of the provider's unique id is not looked at.
SendCaps(p) ==
    IF p.text.provider > MaxString THEN Refused
    ELSE Header("caps", 2 + 2 + p.text.provider + 2 + p.text.uniqueId)
         \o U16(p.version) \o Text(p, "provider") \o Text(p, "uniqueId")

\* Six numbers that the plugin takes as they are, the size of the image, and it.
IconInfo   == [i \in 1 .. 12 |-> i % 2]
Image(n)   == [i \in 1 .. n \div 2 |-> 200]
OptIcon(p) == IF Has(p.flags, Field.icon)
              THEN IconInfo \o U32(p.icon) \o Image(p.icon) ELSE <<>>

NoUpdate(p) == \/ TooLarge(p, {"id", "group", "exec", "workingDir", "desc"})
               \/ Has(p.flags, Field.icon) /\ p.icon = NoIcon

UpdateSize(p) == 4 + OptSize(p, "id") + OptSize(p, "group") + OptSize(p, "exec")
                   + OptSize(p, "workingDir") + OptSize(p, "desc")
                   + (IF Has(p.flags, Field.icon) THEN 7 * 4 + p.icon ELSE 0)

\* Mutated: the description, which has the lower bit, before the directory.
SendUpdateByBit(p) ==
    IF NoUpdate(p) THEN Refused
    ELSE Header("update", UpdateSize(p))
         \o U32(p.flags) \o OptText(p, "id") \o OptText(p, "group") \o OptText(p, "exec")
         \o OptText(p, "desc") \o OptText(p, "workingDir") \o OptIcon(p)

SendUpdate(p) ==
    IF NoUpdate(p) THEN Refused
    ELSE Header("update", UpdateSize(p))
         \o U32(p.flags) \o OptText(p, "id") \o OptText(p, "group") \o OptText(p, "exec")
         \o OptText(p, "workingDir") \o OptText(p, "desc") \o OptIcon(p)

SendDelete(p) ==
    IF TooLarge(p, {"id", "group"}) THEN Refused
    ELSE Header("delete", 4 + OptSize(p, "id") + OptSize(p, "group"))
         \o U32(p.flags) \o OptText(p, "id") \o OptText(p, "group")

SendDeleteProvider(p) ==
    IF TooLarge(p, {"provider"}) THEN Refused
    ELSE Header("deleteProvider", 4 + OptSize(p, "provider"))
         \o U32(p.flags) \o OptText(p, "provider")

\* Mutated: the size is that of the other messages, without the window.
SendAssociateShort(p) ==
    IF TooLarge(p, {"id", "group", "exec", "desc"}) THEN Refused
    ELSE Header("associate", 4 + OptSize(p, "id") + OptSize(p, "group")
                               + OptSize(p, "exec") + OptSize(p, "desc"))
         \o U32(p.flags) \o U32(p.window) \o OptText(p, "id") \o OptText(p, "group")
         \o OptText(p, "exec") \o OptText(p, "desc")

SendAssociate(p) ==
    IF TooLarge(p, {"id", "group", "exec", "desc"}) THEN Refused
    ELSE Header("associate", 8 + OptSize(p, "id") + OptSize(p, "group")
                               + OptSize(p, "exec") + OptSize(p, "desc"))
         \o U32(p.flags) \o U32(p.window) \o OptText(p, "id") \o OptText(p, "group")
         \o OptText(p, "exec") \o OptText(p, "desc")

Packet(p) ==
    CASE p.cmd = "caps"           -> SendCaps(p)
      [] p.cmd = "update"         -> SendUpdate(p)
      [] p.cmd = "delete"         -> SendDelete(p)
      [] p.cmd = "deleteProvider" -> SendDeleteProvider(p)
      [] p.cmd = "associate"      -> SendAssociate(p)

\* The plugin's answer to the capabilities; its language is one more text.
CapsReply ==
    Header("caps", 2 + LangSize) \o U16(ChannelVersion) \o [i \in 1 .. LangSize \div 2 |-> 108]
-----------------------------------------------------------------------------
(* Reading, from rest into got; r.ok goes once something is missing *)

Start(words) == [ok |-> TRUE, rest |-> words, got |-> <<>>]
Fail         == [ok |-> FALSE, rest |-> <<>>, got |-> <<>>]

Take(r, n, name, value) ==
    IF r.ok /\ Len(r.rest) >= n
    THEN [ok   |-> TRUE,
          rest |-> SubSeq(r.rest, n + 1, Len(r.rest)),
          got  |-> Append(r.got, <<name, value>>)]
    ELSE Fail

ReadUINT16(r, name)   == Take(r, 1, name, Head(r.rest))
ReadUINT32(r, name)   == Take(r, 2, name, r.rest[1] + 65536 * r.rest[2])
ReadBYTES(r, n, name) == Take(r, n \div 2, name, SubSeq(r.rest, 1, n \div 2))

\* Mutated: a text that is there is required.
ReadSTRINGRequired(r, name, required) ==
    LET body == ReadUINT16(r, name)
        n    == Head(r.rest)
    IN  IF ~body.ok \/ n + 2 > MaxString \/ n = 0 THEN Fail
        ELSE ReadBYTES([r EXCEPT !.rest = body.rest], n, name)

\* ReadSTRING: room for a terminating zero, and not empty if it is required.
ReadSTRING(r, name, required) ==
    LET body == ReadUINT16(r, name)
        n    == Head(r.rest)
    IN  IF ~body.ok \/ n + 2 > MaxString \/ (n = 0 /\ required) THEN Fail
        ELSE ReadBYTES([r EXCEPT !.rest = body.rest], n, name)

\* The number that was read last.
Last(r) == r.got[Len(r.got)][2]

ReadFlags(words, required) ==
    LET r == ReadUINT32(Start(words), "flags")
    IN  IF r.ok /\ HasAll(Last(r), required) THEN r ELSE Fail

\* A text whose flag is set; flags is what has been read first.
Flagged(r, name, required) ==
    IF r.ok /\ Has(r.got[1][2], Field[name]) THEN ReadSTRING(r, name, required) ELSE r

ReadServerCaps(words) ==
    LET version  == ReadUINT16(Start(words), "version")
        provider == ReadSTRING(version, "provider", TRUE)
    IN  IF provider.ok /\ provider.got[1][2] >= 4
        THEN ReadSTRING(provider, "uniqueId", TRUE) ELSE provider

ReadIconData(r) ==
    LET size == ReadUINT32(ReadBYTES(r, 24, "iconInfo"), "iconSize")
    IN  IF size.ok THEN ReadBYTES(size, Last(size), "image") ELSE Fail

ReadUpdate(words) ==
    LET flags == ReadFlags(words, {Field.id, Field.exec, Field.desc})
        id    == Flagged(flags, "id", TRUE)
        group == Flagged(id, "group", FALSE)
        exec  == Flagged(group, "exec", TRUE)
        dir   == Flagged(exec, "workingDir", FALSE)
        desc  == Flagged(dir, "desc", TRUE)
    IN  IF desc.ok /\ Has(desc.got[1][2], Field.icon) THEN ReadIconData(desc) ELSE desc

ReadDelete(words) ==
    Flagged(Flagged(ReadFlags(words, {Field.id}), "id", TRUE), "group", FALSE)

ReadAssociate(words) ==
    LET flags  == ReadFlags(words, {Field.id, Field.windowId})
        window == IF flags.ok THEN ReadUINT32(flags, "window") ELSE Fail
        group  == Flagged(Flagged(window, "id", TRUE), "group", FALSE)
    IN  Flagged(Flagged(group, "exec", TRUE), "desc", TRUE)

ReadAppListHeader(words) == ReadUINT32(ReadUINT32(Start(words), "cmd"), "length")

\* rdpapplist_server_receive_pdu and rdpapplist_recv_caps_pdu
ReceivePdu(words) ==
    LET header == ReadAppListHeader(words)
    IN  IF header.ok /\ header.got[1][2] = Cmd.caps
        THEN ReadBYTES(ReadUINT16(Start(header.rest), "version"), LangSize, "language")
        ELSE Fail
-----------------------------------------------------------------------------
(* What a message says, to compare with what is read of it *)

Letters(p, f) == <<f, Chars(f, p.text[f])>>
OptLetters(p, f) ==
    IF Has(p.flags, Field[f]) THEN <<Letters(p, f)>> ELSE <<>>

Said(p) ==
    CASE p.cmd = "caps" -> <<<<"version", p.version>>, Letters(p, "provider")>>
                           \o (IF p.version >= 4 THEN <<Letters(p, "uniqueId")>> ELSE <<>>)
      [] p.cmd = "update" ->
            <<<<"flags", p.flags>>>> \o OptLetters(p, "id") \o OptLetters(p, "group")
            \o OptLetters(p, "exec") \o OptLetters(p, "workingDir") \o OptLetters(p, "desc")
            \o (IF Has(p.flags, Field.icon)
                THEN <<<<"iconInfo", IconInfo>>, <<"iconSize", p.icon>>, <<"image", Image(p.icon)>>>>
                ELSE <<>>)
      [] p.cmd = "delete" ->
            <<<<"flags", p.flags>>>> \o OptLetters(p, "id") \o OptLetters(p, "group")
      [] p.cmd = "associate" ->
            <<<<"flags", p.flags>>, <<"window", p.window>>>> \o OptLetters(p, "id")
            \o OptLetters(p, "group") \o OptLetters(p, "exec") \o OptLetters(p, "desc")
      [] OTHER -> <<>>

\* The texts of a message that are read, those that must not be empty, and the
\* flags that must be set.
FieldsOf == [caps |-> {}, update |-> {"id", "group", "exec", "workingDir", "desc"},
             delete |-> {"id", "group"}, deleteProvider |-> {},
             associate |-> {"id", "group", "exec", "desc"}]

Carried(p) ==
    IF p.cmd = "caps" THEN {"provider"} \cup (IF p.version >= 4 THEN {"uniqueId"} ELSE {})
    ELSE {f \in FieldsOf[p.cmd] : Has(p.flags, Field[f])}

Needed(p) == Carried(p) \ {"group", "workingDir"}

Requires == [caps |-> {}, update |-> {1, 4, 8}, delete |-> {1}, deleteProvider |-> {},
             associate |-> {1, 128}]

\* What the plugin can take of what the distribution sends.  A text that fills
\* the limit, or fills it but for the terminating zero, is sent and not taken.
Readable(p) ==
    /\ p.cmd # "deleteProvider"
    /\ HasAll(p.flags, Requires[p.cmd])
    /\ \A f \in Carried(p) : p.text[f] + 2 <= MaxString
    /\ \A f \in Needed(p) : p.text[f] > 0
=============================================================================
