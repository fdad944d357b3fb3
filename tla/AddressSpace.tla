----------------------------- MODULE AddressSpace -----------------------------
(***************************************************************************)
(* What building a page table promises while the table may be in use: the  *)
(* address space only grows.  A run of pages nothing is mapped to gets its *)
(* attributes, and keeps them.                                             *)
(***************************************************************************)
EXTENDS Integers

CONSTANTS
    Pages,      \* the virtual pages, integers
    Attrs,      \* the attributes a page may have
    Unmapped    \* no mapping, none of Attrs

VARIABLE space

TypeOK == space \in [Pages -> Attrs \cup {Unmapped}]

\* The pages a step maps are next to each other, nothing was mapped to them,
\* and they all get the same attributes.
Map ==
    LET old == space
        new == space'
        changed == {p \in Pages : new[p] # old[p]}
    IN  /\ DOMAIN new = Pages
        /\ \A p \in changed : old[p] = Unmapped /\ new[p] \in Attrs
        /\ \A p, q \in changed : p .. q \subseteq changed /\ new[p] = new[q]

Init == space = [p \in Pages |-> Unmapped]

Spec == Init /\ [][Map]_space
===============================================================================
