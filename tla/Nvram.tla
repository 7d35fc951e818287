------------------------------- MODULE Nvram -------------------------------
(***************************************************************************)
(* nvram (package/utils/nvram): variables of the boot loader in a flash    *)
(* partition.  Each invocation of the command is a process.  It works on a *)
(* copy of the partition in /tmp, which it makes when there is none, reads *)
(* all variables into a hash table, changes the table, writes the whole    *)
(* copy again from the table and, for "commit", writes the copy to flash   *)
(* and removes it.  Nothing is locked, and no checksum is looked at.       *)
(* The header is at the start of the partition, which is one erase block.  *)
(*                                                                         *)
(* Env says what else happens:                                             *)
(*   "power"       power loss at any time                                  *)
(*   "overlap"     a command starts while another one runs                 *)
(*   "writeFails"  the flash cannot be opened for writing, or the write    *)
(*                 fails with the old contents kept                        *)
(***************************************************************************)
EXTENDS Integers, Sequences, SequencesExt

CONSTANTS Procs,      \* processes
          Names,      \* names of variables
          Values,     \* their values, strings
          Specials,   \* the sdram_ variables, in the order of _nvram_rehash
          Len0,       \* Len0[x]: strlen of a name or value
          Words,      \* numbers a field of the header holds
          Word,       \* Word[v]: the number a string stands for (strtoul)
          Print0,     \* Print0[w]: the string a number is printed as
          Default,    \* the value of a header field if a special one is unset
          Erased,     \* the number in a field of erased flash
          Buckets,    \* size of the hash table
          Hash,       \* Hash[n]: the bucket of n
          Header,     \* sizeof(nvram_header_t)
          Part,       \* nvram_part_size, with the header at its start
          Sets,       \* tuples that are given to set
          Unsets,     \* names that are given to unset
          First,      \* the variables in flash at first: a sequence of tuples
          None,       \* of a file: there is none
          Empty,      \* of a file: created, nothing written yet
          Blank,      \* of the partition or a file: no magic
          Env         \* see above

Special == {Specials[k] : k \in 1..Len(Specials)}
Tuples  == Names \X Values

\* nul: the tuples end in a NUL.  A length of Part stands for any that
\* nvram_open refuses, that of erased flash too.
Images  == [hdr : [Special -> Words], data : Seq(Tuples), len : 0..Part, nul : BOOLEAN]

ASSUME SpecialAssumption == Specials \in Seq(Names)
ASSUME LenAssumption     == Len0 \in [Names \cup Values -> Nat]
ASSUME WordAssumption    == Word \in [Values -> Words] /\ Print0 \in [Words -> Values]
ASSUME PrintAssumption   == \A w \in Words : Word[Print0[w]] = w
ASSUME DefaultAssumption == Default \in [Special -> Words] /\ Erased \in Words
ASSUME HashAssumption    == Buckets \in Nat /\ Hash \in [Names -> 1..Buckets]
\* nvram_open wants NVRAM_MIN_SPACE bytes: the header and its two NULs fit, and a
\* printed number is never refused for its length.
ASSUME SizeAssumption    == /\ Header \in Nat /\ Part \in Nat /\ Part % 4 = 0
                            /\ Header + 2 <= Part /\ \A w \in Words : Len0[Print0[w]] < Part
ASSUME FirstAssumption   == First \in Seq(Tuples)
ASSUME EditsAssumption   == Sets \subseteq Tuples /\ Unsets \subseteq Names
ASSUME FileAssumption    == /\ None # Empty /\ None # Blank /\ Empty # Blank
                            /\ {None, Empty, Blank} \cap Images = {}
ASSUME EnvAssumption     == Env \subseteq {"power", "overlap", "writeFails"}

VARIABLES
    flash,   \* the partition
    stg,     \* /tmp/.nvram
    pr,      \* pr[p]: the command p runs
    off      \* there is no power

vars == <<flash, stg, pr, off>>

-----------------------------------------------------------------------------
(* The image: header fields, "name=value" strings in order, and hdr.len.   *)

NoTable == [b \in 1..Buckets |-> <<>>]

\* Bytes of a tuple and of the tuples of a sequence.
bytes(t) == Len0[t[1]] + 1 + Len0[t[2]] + 1

size(s) ==
    LET sum[k \in 0..Len(s)] == IF k = 0 THEN 0 ELSE sum[k - 1] + bytes(s[k])
    IN  sum[Len(s)]

\* Room for tuples: a double NUL stays free at the end.
room == Part - Header - 2

\* header->len, rounded up to 4 bytes.
length(s) == ((Header + size(s) + 2 + 3) \div 4) * 4

-----------------------------------------------------------------------------
(* The hash table: a chain of tuples per bucket.                           *)

holds(tab, n) == \E k \in 1..Len(tab[Hash[n]]) : tab[Hash[n]][k][1] = n

\* Where n is in its chain.
find(tab, n) == CHOOSE k \in 1..Len(tab[Hash[n]]) : tab[Hash[n]][k][1] = n

value(tab, n) == tab[Hash[n]][find(tab, n)][2]

\* A value is replaced in place, a new tuple goes to the head of its chain;
\* a value larger than the partition is refused.
nvram_set(tab, n, v) ==
    IF Len0[v] + 1 > Part THEN tab
    ELSE [tab EXCEPT ![Hash[n]] =
            IF holds(tab, n) THEN [@ EXCEPT ![find(tab, n)] = <<n, v>>] ELSE <<<<n, v>>>> \o @]

nvram_unset(tab, n) ==
    IF holds(tab, n) THEN [tab EXCEPT ![Hash[n]] = RemoveAt(@, find(tab, n))] ELSE tab

\* The table of the tuples of an image.
read_tuples(s) ==
    LET tab[k \in 0..Len(s)] ==
            IF k = 0 THEN NoTable ELSE nvram_set(tab[k - 1], s[k][1], s[k][2])
    IN  tab[Len(s)]

\* The table of an image; what is missing of the special ones is printed
\* from the header.
nvram_rehash(img) ==
    LET add(tab, n) == IF holds(tab, n) THEN tab ELSE nvram_set(tab, n, Print0[img.hdr[n]])
        all[k \in 0..Len(Specials)] ==
            IF k = 0 THEN read_tuples(img.data) ELSE add(all[k - 1], Specials[k])
    IN  all[Len(Specials)]

\* Mutant: the end of the partition is not looked at.
write_tuples_all(tab) == FoldLeft(LAMBDA out, s : out \o s, <<>>, tab)

\* Mutant: only the first chain is written.
write_tuples_first(tab) == tab[1]

\* "Write out all tuples": chain by chain, and a chain up to the first tuple
\* that does not fit.
write_chain(out, s) ==
    out \o SubSeq(s, 1, Max({k \in 0..Len(s) : size(out) + size(SubSeq(s, 1, k)) <= room}))

write_tuples(tab) ==
    LET out[b \in 0..Buckets] == IF b = 0 THEN <<>> ELSE write_chain(out[b - 1], tab[b])
    IN  out[Buckets]

\* The header fields: from the special variables if all are set.
header(tab) ==
    IF \A n \in Special : holds(tab, n)
    THEN [n \in Special |-> Word[value(tab, n)]]
    ELSE Default

Image(tab) ==
    LET data == write_tuples(tab)
    IN  [hdr |-> header(tab), data |-> data, len |-> length(data), nul |-> TRUE]

\* What flash may hold of img when programming it from the start stops: no
\* magic; a part of the header; or the header and tuples up to one of which the
\* name, or the name and a part of the value, is there.  That value runs
\* through erased flash to some NUL behind the partition.
torn(img) ==
    LET cut(h, d, l) == [hdr |-> h, data |-> d, len |-> l, nul |-> FALSE]
        upto(k) == SubSeq(img.data, 1, k)
        runs(k) == {v \in Values : /\ Len0[v] < Part
                                   /\ Header + size(upto(k)) + bytes(<<img.data[k + 1][1], v>>) > Part}
    IN  IF img = Blank THEN {Blank}
        ELSE {Blank}
             \cup {cut([n \in Special |-> Erased], <<>>, Part)}
             \cup {cut([n \in Special |-> IF n \in {Specials[j] : j \in 1..k} THEN img.hdr[n] ELSE Erased],
                       <<>>, img.len) : k \in 0..Len(Specials)}
             \cup {cut(img.hdr, upto(k), img.len) : k \in 0..Len(img.data)}
             \cup UNION {{cut(img.hdr, Append(upto(k), <<img.data[k + 1][1], v>>), img.len) : v \in runs(k)}
                           : k \in 0..(Len(img.data) - 1)}

-----------------------------------------------------------------------------

Edits    == {[op |-> "set", n |-> t[1], v |-> t[2]] : t \in Sets}
                \cup [op : {"unset"}, n : Unsets]
NoEdit   == [op |-> "none"]
Get      == [op |-> "get"]

\* "commit" alone, set or unset with or without it, and a "get" followed by it;
\* what only reads is left out.
Commands == [edit : Edits, commit : BOOLEAN] \cup [edit : {NoEdit, Get}, commit : {TRUE}]

Idle == [at |-> "idle"]

\* A running command: base is the image it has read or is about to replace,
\* file says whether the file it has mapped still is /tmp/.nvram.
Running == [at : {"look", "fetch", "create", "copy", "open", "edit", "header", "clear", "tuples",
                  "read", "write", "erased", "part", "unlink"},
            cmd : Commands, tab : [1..Buckets -> Seq(Tuples)],
            base : Images \cup {None, Empty, Blank}, file : BOOLEAN]

TypeOK ==
    /\ flash \in Images \cup {Blank}
    /\ stg \in Images \cup {None, Empty, Blank}
    /\ pr \in [Procs -> Running \cup {Idle}] /\ off \in BOOLEAN

Init ==
    /\ flash = Image(read_tuples(First))
    /\ stg = None
    /\ pr = [p \in Procs |-> Idle]
    /\ off = FALSE

go(p, to) == pr' = [pr EXCEPT ![p].at = to]

end(p) == pr' = [pr EXCEPT ![p] = Idle]

main(p) ==
    /\ pr[p] = Idle /\ ~off
    /\ "overlap" \in Env \/ \A q \in Procs : pr[q] = Idle
    /\ \E c \in Commands : pr' = [pr EXCEPT ![p] =
            [at |-> "look", cmd |-> c, tab |-> NoTable, base |-> None, file |-> TRUE]]
    /\ UNCHANGED <<flash, stg, off>>

\* nvram_find_staging: is there a copy?
nvram_find_staging(p) ==
    /\ pr[p].at = "look" /\ pr[p].cmd.edit # Get
    /\ go(p, IF stg = None THEN "fetch" ELSE "open")
    /\ UNCHANGED <<flash, stg, off>>

\* nvram_to_staging: the partition is read, the copy is created if it still is
\* not there, and written.
staging_read(p) ==
    /\ pr[p].at = "fetch"
    /\ pr' = [pr EXCEPT ![p].at = "create", ![p].base = flash]
    /\ UNCHANGED <<flash, stg, off>>

staging_create(p) ==
    /\ pr[p].at = "create"
    /\ stg' = IF stg = None THEN Empty ELSE stg
    /\ pr' = [pr EXCEPT ![p].at = "copy", ![p].file = TRUE]
    /\ UNCHANGED <<flash, off>>

staging_write(p) ==
    /\ pr[p].at = "copy"
    /\ stg' = IF pr[p].file THEN pr[p].base ELSE stg
    /\ pr' = [pr EXCEPT ![p].at = "open", ![p].base = None]
    /\ UNCHANGED <<flash, off>>

\* nvram_open for writing takes an image with the magic and a length below
\* the size of the partition.
accepts(img) == img # Blank /\ img.len < Part

\* An empty file kills the process when the mapping is touched; one that was
\* removed cannot be opened.  Tuples without a NUL are read on behind the
\* mapping: the process dies there or goes on with what it has.
nvram_open(p) ==
    /\ pr[p].at = "open"
    /\ LET taken == stg \notin {None, Empty} /\ accepts(stg)
       IN  \/ /\ taken
              /\ pr' = [pr EXCEPT ![p].at = "edit", ![p].tab = nvram_rehash(stg), ![p].file = TRUE]
           \/ (taken => ~stg.nul) /\ end(p)
    /\ UNCHANGED <<flash, stg, off>>

\* nvram_open for reading, for "get" before "commit", takes any length; the
\* partition is read if there is no copy.
nvram_open_rdonly(p) ==
    /\ pr[p].at = "look" /\ pr[p].cmd.edit = Get
    /\ LET img   == IF stg = None THEN flash ELSE stg
           taken == img \notin {Empty, Blank}
       IN  \/ taken /\ go(p, "read")
           \/ (taken => ~img.nul) /\ end(p)
    /\ UNCHANGED <<flash, stg, off>>

\* do_set, do_unset.
edit(p) ==
    /\ pr[p].at = "edit"
    /\ LET e   == pr[p].cmd.edit
           tab == pr[p].tab
       IN  pr' = [pr EXCEPT ![p].at = "header", ![p].tab =
             CASE e.op = "set"   -> nvram_set(tab, e.n, e.v)
               [] e.op = "unset" -> nvram_unset(tab, e.n)
               [] OTHER          -> tab]
    /\ UNCHANGED <<flash, stg, off>>

\* Mutant: the fields of the header are left as they were.
commit_header_not(p) ==
    /\ pr[p].at = "header"
    /\ pr' = [pr EXCEPT ![p].at = "clear", ![p].base = stg]
    /\ UNCHANGED <<flash, stg, off>>

\* nvram_commit, all of it in the mapping: the header is made, the data area
\* cleared, then the tuples, their NUL and the length are written.  What goes to
\* a file that was removed is lost; one that was overwritten without the magic
\* gets it from the header only.  nvram_close frees the table.
commit_header(p) ==
    /\ pr[p].at = "header"
    /\ LET h == header(pr[p].tab)
       IN  stg' = IF ~pr[p].file THEN stg
                  ELSE IF stg = Blank THEN [hdr |-> h, data |-> <<>>, len |-> Part, nul |-> FALSE]
                  ELSE [stg EXCEPT !.hdr = h]
    /\ pr' = [pr EXCEPT ![p].at = "clear", ![p].base = stg]
    /\ UNCHANGED <<flash, off>>

commit_clear(p) ==
    /\ pr[p].at = "clear"
    /\ stg' = IF ~pr[p].file \/ stg = Blank THEN stg ELSE [stg EXCEPT !.data = <<>>, !.nul = FALSE]
    /\ go(p, "tuples")
    /\ UNCHANGED <<flash, off>>

commit_tuples(p) ==
    /\ pr[p].at = "tuples"
    /\ LET data == write_tuples(pr[p].tab)
       IN  stg' = IF ~pr[p].file \/ stg = Blank THEN stg
                  ELSE [stg EXCEPT !.data = data, !.len = length(data), !.nul = TRUE]
    /\ IF pr[p].cmd.commit
       THEN pr' = [pr EXCEPT ![p].at = "read", ![p].tab = NoTable, ![p].base = None]
       ELSE end(p)
    /\ UNCHANGED <<flash, off>>

\* staging_to_nvram: the copy is read, written to the partition, which erases
\* it first, and removed, whatever the write returned; it stays if the
\* partition cannot be opened.
stage_read(p) ==
    /\ pr[p].at = "read"
    /\ IF stg \in {None, Empty} THEN end(p)
       ELSE pr' = [pr EXCEPT ![p].at = "write", ![p].base = stg]
    /\ UNCHANGED <<flash, stg, off>>

\* Mutant: the copy is removed and the partition not written.
stage_erase_not(p) ==
    /\ pr[p].at = "write"
    /\ stg' = None
    /\ end(p)
    /\ UNCHANGED <<flash, off>>

stage_erase(p) ==
    /\ pr[p].at = "write"
    /\ \/ /\ flash' = Blank
          /\ go(p, "erased")
       \/ /\ "writeFails" \in Env
          /\ go(p, "unlink") \/ end(p)
          /\ UNCHANGED flash
    /\ UNCHANGED <<stg, off>>

\* The partition is programmed from its start: a part of it first.
stage_part(p) ==
    /\ pr[p].at = "erased"
    /\ flash' \in torn(pr[p].base)
    /\ go(p, "part")
    /\ UNCHANGED <<stg, off>>

stage_write(p) ==
    /\ pr[p].at = "part"
    /\ flash' = pr[p].base
    /\ go(p, "unlink")
    /\ UNCHANGED <<stg, off>>

\* Whoever has the file mapped goes on with a file nobody will read.
stage_unlink(p) ==
    /\ pr[p].at = "unlink"
    /\ stg' = None
    /\ pr' = [q \in Procs |-> IF q = p \/ pr[q] = Idle THEN Idle
                                ELSE [pr[q] EXCEPT !.file = FALSE]]
    /\ UNCHANGED <<flash, off>>

\* /tmp is in memory.
power_loss ==
    /\ "power" \in Env /\ ~off /\ off' = TRUE
    /\ stg' = None
    /\ pr' = [p \in Procs |-> Idle]
    /\ UNCHANGED flash

boot ==
    /\ off /\ off' = FALSE
    /\ UNCHANGED <<flash, stg, pr>>

step(p) ==
    \/ nvram_find_staging(p) \/ staging_read(p) \/ staging_create(p) \/ staging_write(p)
    \/ nvram_open(p) \/ nvram_open_rdonly(p) \/ edit(p)
    \/ commit_header(p) \/ commit_clear(p) \/ commit_tuples(p)
    \/ stage_read(p) \/ stage_erase(p) \/ stage_part(p) \/ stage_write(p) \/ stage_unlink(p)

Next == power_loss \/ boot \/ \E p \in Procs : main(p) \/ step(p)

Spec == Init /\ [][Next]_vars

-----------------------------------------------------------------------------
(* Properties.                                                             *)

\* The variables of an image: its tuples, and the special ones from the header
\* when they are not among them.
view(img) ==
    IF img = Blank THEN [x \in {} |-> x]
    ELSE LET tuples == ToSet(img.data)
             named  == {t[1] : t \in tuples}
         IN  [n \in named \cup Special |->
                IF n \in named THEN (CHOOSE t \in tuples : t[1] = n)[2]
                ELSE Print0[img.hdr[n]]]

changing == {p \in Procs : pr[p].at \in {"clear", "tuples"}}
erasing  == {p \in Procs : pr[p].at \in {"erased", "part"}}

\* The working copy: a command that rewrites it has done nothing until it is
\* done; without a copy it is what flash holds.
working ==
    IF changing # {} THEN view(pr[CHOOSE p \in changing : TRUE].base)
    ELSE IF stg \in {None, Empty} THEN view(flash) ELSE view(stg)

\* There is room for the variables of m, in whatever order.
fits(m) == size(SetToSeq({<<n, m[n]>> : n \in DOMAIN m})) <= room

Contract == INSTANCE NvramContract WITH
    ram   <- working,
    flash <- IF erasing # {} THEN view(Blank) ELSE view(flash),
    busy  <- erasing # {},
    Fits  <- fits

\* A command has its effect on the working copy at once or not at all, commit
\* makes flash equal to it, power loss takes it back to flash, and a variable
\* disappears unasked only when there is no room.  Power loss while flash is
\* written leaves some of the variables, one of them at most with a wrong value,
\* and commands go on from there: nvram_open looks at no checksum (main,
\* nvram_open, nvram_commit, nvram_to_staging, staging_to_nvram).
Implements == Contract!Spec

\* A command that has rewritten the copy has done what it was asked: the
\* variable has its value, or is gone unless it is special; unless there was
\* no room (nvram_set, nvram_unset, nvram_commit, write_tuples).
EditTakes == [][\A p \in Procs :
    (pr[p].at = "tuples" /\ pr'[p].at # "tuples" /\ ~off') =>
        LET e   == pr[p].cmd.edit
            old == working
            new == [n \in DOMAIN old \cup {e.n} |-> IF n = e.n THEN e.v ELSE old[n]]
        IN  /\ (e.op = "set" /\ fits(new)) =>
                   e.n \in DOMAIN view(stg') /\ view(stg')[e.n] = e.v
            /\ e.op = "unset" => e.n \notin DOMAIN view(stg') \ Special]_vars

\* What a command leaves behind can be opened by the next one: the copy and,
\* but for the write power loss cut short, the partition.  It does not hold
\* when the tuples end in the last bytes of the partition (nvram_commit's
\* header->len against nvram_open's test of it).
Reopens ==
    /\ flash # Blank => accepts(flash)
    /\ stg \notin {None, Empty, Blank} => accepts(stg)

\* The boot loader sets up memory from the header, users read the variables:
\* both say the same, in the copy unless a command is rewriting it, and in the
\* partition unless power loss cut its writing short, whether the tuples found
\* room or not.  Only while a special variable that was unset is missing from
\* the tuples the header may have the defaults for all of them (header and
\* write_tuples of nvram_commit, _nvram_rehash, staging_to_nvram).
HeaderAgrees ==
    \A img \in {flash} \cup (IF changing = {} THEN {stg} ELSE {}) :
        \/ img \in {None, Empty, Blank}
        \/ ~img.nul
        \/ \A n \in Special : img.hdr[n] = Word[view(img)[n]]
        \/ img.hdr = Default /\ \E n \in Special : \A t \in ToSet(img.data) : t[1] # n
=============================================================================
