----------------------------- MODULE MCLoader -----------------------------
(***************************************************************************)
(* Images for TLC, with pages of two bytes and four pages to a table:      *)
(* pages 0 to 11 belong to the user (the stack is 7 and 6), 12 to 23 to    *)
(* the kernel: the boot loader's, the heap's and the devices' slot.        *)
(***************************************************************************)
EXTENDS Loader

Seg(x, offset, vaddr, filesz, memsz) ==
  [load |-> TRUE, x |-> x, offset |-> offset, vaddr |-> vaddr,
   filesz |-> filesz, memsz |-> memsz]

Note == [Seg(FALSE, 0, 0, 0, 2) EXCEPT !.load = FALSE]

Image(headers, entry) ==
  [valid |-> TRUE, phnum |-> Len(headers), headers |-> headers,
   file |-> <<11, 12, 13, 14, 15, 16>>, entry |-> entry]

\* Text, then read-only data in the same page, then data and bss from the
\* middle of a page into the next but one.
Plain == Image(<<Seg(TRUE, 0, 2, 3, 3), Seg(FALSE, 3, 5, 1, 1), Note,
                 Seg(FALSE, 4, 7, 2, 4)>>, 2)

\* Nothing but text that ends with its page, and an empty segment.
Small == Image(<<Seg(TRUE, 1, 4, 2, 2), Seg(FALSE, 0, 0, 0, 0)>>, 5)

\* A bss of its own, headers not in the order of their addresses.
Bss == Image(<<Seg(FALSE, 0, 5, 0, 2), Seg(TRUE, 2, 1, 3, 3)>>, 1)

NotElf == [Small EXCEPT !.valid = FALSE]
Cut == [Small EXCEPT !.phnum = 3]
Short == Image(<<Seg(TRUE, 4, 2, 3, 3)>>, 2)
NoEntry == [Small EXCEPT !.entry = 0]
OverStack == Image(<<Seg(TRUE, 0, 2, 2, 2), Seg(FALSE, 0, 13, 1, 1)>>, 2)
FileTooLarge == Image(<<Seg(TRUE, 0, 2, 4, 2)>>, 2)

MCImages == {Plain, Small, Bss, NotElf, Cut, Short, NoEntry, OverStack,
             FileTooLarge}

MCHeap == <<16, 17>>
MCDevices == <<<<20, 101>>, <<21, 102>>>>
MCFree == {{}} \cup {1..n : n \in 1..16} \cup {(1..7) \cup (12..21)}

=============================================================================
