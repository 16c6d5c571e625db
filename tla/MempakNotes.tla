----------------------------- MODULE MempakNotes ----------------------------
(***************************************************************************)
(* mempak.c: a note as the card has it and as its client sees it.  Names   *)
(* are sequences of ASCII codes, ended by a 0 or by the end of the field;  *)
(* the card has codes of its own and keeps the extension, one character    *)
(* after a dot, apart.  Vendor and game are left out.                      *)
(***************************************************************************)
EXTENDS Integers, Sequences, FiniteSetsExt

CONSTANT NameLength     \* 16: the field on the card

ASSUME NameAssumption == NameLength \in Nat \ {0}

Note == [inode : Nat, region : Nat, name : [1 .. NameLength -> Nat], ext : Nat]

Dot == 46

\* What both charts have between '!' and '@', in the order of the card's codes;
\* the first of these is 52.
Misc == <<33, 34, 35, 96, 42, 43, 44, 45, 46, 47, 58, 61, 63, 64>>

__n64_to_ascii(c) ==
    CASE c = 0 -> 0
      [] c \in 52 .. 65 -> Misc[c - 51]
      [] c \in 16 .. 25 -> 48 + (c - 16)
      [] c \in 26 .. 51 -> 65 + (c - 26)
      [] OTHER -> 32

__ascii_to_n64(c) ==
    CASE c = 0 -> 0
      [] \E i \in DOMAIN Misc : Misc[i] = c -> 51 + CHOOSE i \in DOMAIN Misc : Misc[i] = c
      [] c \in 48 .. 57 -> 16 + (c - 48)
      [] c \in 65 .. 90 -> 26 + (c - 65)
      [] OTHER -> 15

\* __validate_region: the letters the market is coded with.
ValidRegion(region) == region \in {0, 55, 65, 68, 69, 70, 73, 74, 80, 83, 85, 88, 89}

\* A name as the client's structure holds it, with room for a dot, an
\* extension and the 0.
Field(name) == [i \in 1 .. NameLength + 3 |-> IF i <= Len(name) THEN name[i] ELSE 0]

\* Every dot and what follows it is taken out of the name, from the last to
\* the first, whose extension is the one that stays.
__write_note(entry, inode) ==
    LET tname == Field(entry.name)
        dots == {i \in DOMAIN tname : tname[i] = Dot}
        out == dots \cup {i + 1 : i \in dots}
        after == IF dots = {} \/ Min(dots) + 1 \in dots THEN 0 ELSE tname[Min(dots) + 1]
    IN  [inode |-> inode, region |-> entry.region,
         name |-> [i \in 1 .. NameLength |-> __ascii_to_n64(IF i \in out THEN 0 ELSE tname[i])],
         ext |-> __ascii_to_n64(after)]

\* The name that is read always has its dot, after the first 0.
NoteName(tnote) ==
    LET ascii == Field([i \in 1 .. NameLength |-> __n64_to_ascii(tnote.name[i])])
        end == Min({i \in DOMAIN ascii : ascii[i] = 0})
        name == [ascii EXCEPT ![end] = Dot, ![end + 1] = __n64_to_ascii(tnote.ext)]
    IN  SubSeq(name, 1, Min({i \in DOMAIN name : name[i] = 0}) - 1)

\* A name that can be kept: one dot, an extension of one character at most,
\* and only characters that the card has.
CleanName(name) ==
    /\ \E i \in 1 .. NameLength + 1 : {j \in DOMAIN name : name[j] = Dot} = {i} /\ Len(name) \in {i, i + 1}
    /\ \A i \in DOMAIN name : name[i] # 0
    /\ \A i \in DOMAIN name : name[i] = 32 \/ __ascii_to_n64(name[i]) # 15

BlankNote == [inode |-> 0, region |-> 0, name |-> [i \in 1 .. NameLength |-> 0], ext |-> 0]
=============================================================================
