------------------------------ MODULE MCBlock ------------------------------
(***************************************************************************)
(* Partition tables for TLC, on a disk of three sectors of two bytes.       *)
(***************************************************************************)
EXTENDS Block, TLC

Mbr(ptype, start, count) == [ptype |-> ptype, start |-> start, count |-> count]
NoEntry == Mbr("empty", 0, 0)
Protective == Mbr("gpt", 1, 2)

Gpt(start, last) == [used |-> TRUE, start |-> start, last |-> last]
Unused == [used |-> FALSE, start |-> 0, last |-> 0]

NoGpt == [per_sector |-> 1, num_entries |-> 0, sectors |-> <<>>]

Label(mbr, gpt) == [signature |-> TRUE, mbr |-> mbr, gpt |-> gpt]

MCLabels == {
  Label(<<Mbr("fat32", 1, 2), NoEntry, NoEntry, NoEntry>>, NoGpt),
  Label(<<NoEntry, Protective, Mbr("linux", 1, 1), Mbr("fat32", 2, 1)>>, NoGpt),
  Label(<<Protective, NoEntry, NoEntry, NoEntry>>,
        [per_sector |-> 2, num_entries |-> 4,
         sectors |-> <<<<Unused, Unused>>, <<Unused, Gpt(2, 2)>>>>]),
  Label(<<Protective, NoEntry, NoEntry, NoEntry>>,
        [per_sector |-> 1, num_entries |-> 5,
         sectors |-> <<<<Gpt(1, 2)>>, <<Gpt(0, 0)>>, <<Unused>>, <<Unused>>>>]),
  Label(<<NoEntry, NoEntry, NoEntry, NoEntry>>, NoGpt),
  [Label(<<Mbr("fat32", 1, 2), NoEntry, NoEntry, NoEntry>>, NoGpt)
     EXCEPT !.signature = FALSE]}

MCBuffers == {<<1>>, <<1, 0>>, <<0, 1, 1>>}
MCSeeks == {-1, 1, 2}
Alike == Permutations(Tasks)

=============================================================================
