------------------------------- MODULE Pager -------------------------------
(***************************************************************************)
(* The database file of storage/pager.go: its header, its pages and the    *)
(* free list threaded through them, from one Open to the next.             *)
(*                                                                         *)
(* AllocatePage and FreePage make two writes to the file each, and a crash *)
(* may fall between them. A page's content is Node (a node of a tree), the *)
(* number in its first four bytes otherwise (a link; 0 for a zeroed page), *)
(* or Absent beyond the end of the file.                                   *)
(*                                                                         *)
(* The trees use the pager through the pool: used are the pages they hold, *)
(* fresh those whose node is only in the pool, stored the pages the trees  *)
(* on disk refer to, which are the trees after a crash. The catalog's root *)
(* page is its leftmost leaf and never freed. The writes of wal.Recover    *)
(* are in module Database.                                                 *)
(***************************************************************************)
EXTENDS Integers, Sequences

CONSTANTS
  MaxPages,  \* bound on the pages of the file after the header
  Node,      \* the content of a page with a node
  Absent,    \* the content of a page beyond the end of the file
  NoHeader   \* the header of an empty file

VARIABLES
  header,  \* on disk: pageCount, freeListHead, catalogRootPageID
  file,    \* the pages
  pager,   \* the Pager's copies of the header's fields
  mode,    \* down, opening, loading, open, or refused when Open returned an error
  op,      \* the method between its two writes: grow, link; root: the new catalog's
  page,    \* its page
  used, fresh, stored,
  chain,   \* the pages freed and not handed out again, the last one last
  crashed  \* history: whether the process has ever crashed

vars == <<header, file, pager, mode, op, page, used, fresh, stored, chain, crashed>>

Pages == 1 .. MaxPages
Contents == {Node, Absent} \cup (0 .. MaxPages)
Headers == [pageCount : 1 .. MaxPages + 1, freeListHead : 0 .. MaxPages,
            catalogRootPageID : 0 .. MaxPages]

ASSUME PagerAssumption ==
  /\ MaxPages \in Nat
  /\ Node \notin Nat /\ Absent \notin Nat /\ Node # Absent
  /\ NoHeader \notin Headers

\* What a node's first four bytes (its type, its key count) are as a link.
NodeWord == 16777216

\* createHeader(1, 0, 0, 0).
createHeader == [pageCount |-> 1, freeListHead |-> 0, catalogRootPageID |-> 0]

Init ==
  /\ header = NoHeader
  /\ file = [p \in Pages |-> Absent]
  /\ pager = createHeader
  /\ mode = "down"
  /\ op = "idle" /\ page = 0
  /\ used = {} /\ fresh = {} /\ stored = {}
  /\ chain = <<>>
  /\ crashed = FALSE
-----------------------------------------------------------------------------
(* Opening: storage.Open, then the catalog's tree *)

OpenNew ==
  /\ mode = "down" /\ header = NoHeader
  /\ header' = createHeader
  /\ pager' = createHeader
  /\ mode' = "opening"
  /\ UNCHANGED <<file, op, page, used, fresh, stored, chain, crashed>>

OpenExisting ==
  /\ mode \in {"down", "refused"} /\ header # NoHeader
  /\ pager' = header
  /\ mode' = IF header.catalogRootPageID = 0 THEN "opening" ELSE "loading"
  /\ UNCHANGED <<header, file, op, page, used, fresh, stored, chain, crashed>>

\* After AllocatePage for the new catalog: the header refers to its root.
SetCatalogRootPageID ==
  /\ op = "root"
  /\ header' = [header EXCEPT !.catalogRootPageID = page]
  /\ pager' = [pager EXCEPT !.catalogRootPageID = page]
  /\ stored' = stored \cup {page}
  /\ mode' = "loading"
  /\ op' = "idle" /\ page' = 0
  /\ UNCHANGED <<file, used, fresh, chain, crashed>>

\* A page the trees can read: decodeNode refuses one that is not a node.
Readable(p) == p < pager.pageCount /\ (p \in fresh \/ file[p] = Node)

\* catalog.Open, whose scan reads the root; on an error db.Open gives up.
OpenCatalog ==
  /\ mode = "loading"
  /\ mode' = IF Readable(pager.catalogRootPageID) THEN "open" ELSE "refused"
  /\ fresh' = IF mode' = "open" THEN fresh ELSE {}
  /\ UNCHANGED <<header, file, pager, op, page, used, stored, chain, crashed>>
-----------------------------------------------------------------------------
(* AllocatePage *)

\* It is called by the trees, and by db.Open for a catalog that is not there.
CanAllocate == op = "idle" /\ mode \in {"opening", "open"}

Allocated(id) ==
  /\ used' = used \cup {id}
  /\ fresh' = fresh \cup {id}
  /\ op' = IF mode = "opening" THEN "root" ELSE "idle"
  /\ page' = IF mode = "opening" THEN id ELSE 0
  /\ UNCHANGED <<mode, stored, crashed>>

\* Mutant: the head of the free list is handed out and stays there.
AllocateReuseKeepsHead ==
  /\ CanAllocate
  /\ pager.freeListHead # 0
  /\ Allocated(pager.freeListHead)
  /\ UNCHANGED <<header, file, pager, chain>>

AllocateReuse ==
  /\ CanAllocate
  /\ pager.freeListHead # 0 /\ pager.freeListHead < pager.pageCount
  /\ LET id == pager.freeListHead
         next == IF file[id] \in Nat THEN file[id] ELSE NodeWord
     IN /\ pager' = [pager EXCEPT !.freeListHead = next]
        /\ header' = [header EXCEPT !.freeListHead = next]
        /\ Allocated(id)
  /\ chain' = SubSeq(chain, 1, Len(chain) - 1)
  /\ UNCHANGED file

\* The first write of AllocatePage when the list is empty.
AllocateZero ==
  /\ CanAllocate
  /\ pager.freeListHead = 0 /\ pager.pageCount <= MaxPages
  /\ file' = [file EXCEPT ![pager.pageCount] = 0]
  /\ op' = "grow" /\ page' = pager.pageCount
  /\ UNCHANGED <<header, pager, mode, used, fresh, stored, chain, crashed>>

\* The second: the page count.
AllocateCount ==
  /\ op = "grow"
  /\ pager' = [pager EXCEPT !.pageCount = @ + 1]
  /\ header' = [header EXCEPT !.pageCount = pager.pageCount + 1]
  /\ Allocated(page)
  /\ UNCHANGED <<file, chain>>
-----------------------------------------------------------------------------
(* FreePage and WritePage, called by the pool for the trees *)

\* Mutant: the header refers to the page before its link is written.
FreeLinkHeadFirst(p) ==
  /\ mode = "open" /\ op = "idle"
  /\ p \in used /\ p # pager.catalogRootPageID /\ Readable(p)
  /\ header' = [header EXCEPT !.freeListHead = p]
  /\ used' = used \ {p}
  /\ fresh' = fresh \ {p}
  /\ op' = "link" /\ page' = p
  /\ UNCHANGED <<file, pager, mode, stored, chain, crashed>>

\* The first write of FreePage: the link to the page freed before.
FreeLink(p) ==
  /\ mode = "open" /\ op = "idle"
  /\ p \in used /\ p # pager.catalogRootPageID /\ Readable(p)
  /\ file' = [file EXCEPT ![p] = pager.freeListHead]
  /\ used' = used \ {p}
  /\ fresh' = fresh \ {p}
  /\ op' = "link" /\ page' = p
  /\ UNCHANGED <<header, pager, mode, stored, chain, crashed>>

\* Mutant: the page is not put on the list.
FreeHeadForgotten ==
  /\ op = "link"
  /\ op' = "idle" /\ page' = 0
  /\ UNCHANGED <<header, file, pager, mode, used, fresh, stored, chain, crashed>>

\* The second: the head.
FreeHead ==
  /\ op = "link"
  /\ pager' = [pager EXCEPT !.freeListHead = page]
  /\ header' = [header EXCEPT !.freeListHead = page]
  /\ chain' = Append(chain, page)
  /\ op' = "idle" /\ page' = 0
  /\ UNCHANGED <<file, mode, used, fresh, stored, crashed>>

\* The pool writes a page. It may be the one in which the trees on disk come to
\* refer to pages in use, or no longer refer to some.
WritePage(p) ==
  /\ mode = "open" /\ op = "idle"
  /\ p \in used /\ Readable(p)
  /\ file' = [file EXCEPT ![p] = Node]
  /\ fresh' = fresh \ {p}
  /\ stored' \in SUBSET (stored \cup used)
  /\ pager.catalogRootPageID \in stored'
  /\ UNCHANGED <<header, pager, mode, op, page, used, chain, crashed>>

\* Mutant: the pool is not flushed.
CloseUnflushed ==
  /\ mode = "open" /\ op = "idle"
  /\ stored' = used
  /\ fresh' = {}
  /\ mode' = "down"
  /\ UNCHANGED <<header, file, pager, op, page, used, chain, crashed>>

\* DB.Close: FlushAll writes what is left of the trees.
Close ==
  /\ mode = "open" /\ op = "idle"
  /\ file' = [p \in Pages |-> IF p \in fresh THEN Node ELSE file[p]]
  /\ stored' = used
  /\ fresh' = {}
  /\ mode' = "down"
  /\ UNCHANGED <<header, pager, op, page, used, chain, crashed>>

\* The pool and the Pager are lost; the trees are those on disk.
Crash ==
  /\ mode \in {"opening", "loading", "open"}
  /\ mode' = "down"
  /\ crashed' = TRUE
  /\ op' = "idle" /\ page' = 0
  /\ used' = stored
  /\ fresh' = {}
  /\ UNCHANGED <<header, file, pager, stored, chain>>

Next ==
  \/ OpenNew
  \/ OpenExisting
  \/ SetCatalogRootPageID
  \/ OpenCatalog
  \/ AllocateReuse
  \/ AllocateZero
  \/ AllocateCount
  \/ \E p \in Pages : FreeLink(p)
  \/ FreeHead
  \/ \E p \in Pages : WritePage(p)
  \/ Close
  \/ Crash

Spec == Init /\ [][Next]_vars
-----------------------------------------------------------------------------
(* Properties *)

\* The types of all variables.
PagerTypeOK ==
  /\ header \in {NoHeader} \cup Headers
  /\ file \in [Pages -> Contents]
  /\ pager \in Headers
  /\ mode \in {"down", "opening", "loading", "open", "refused"}
  /\ op \in {"idle", "grow", "link", "root"}
  /\ page \in 0 .. MaxPages
  /\ used \subseteq Pages /\ fresh \subseteq Pages /\ stored \subseteq Pages
  /\ chain \in Seq(Pages)
  /\ crashed \in BOOLEAN

\* In every state, and so after every crash, the links on disk lead from the
\* header's freeListHead through exactly the pages freed and not reused, each
\* of them inside the file and none twice (AllocatePage, FreePage, Open).
FreeListSound ==
  header # NoHeader =>
    /\ header.freeListHead = IF chain = <<>> THEN 0 ELSE chain[Len(chain)]
    /\ \A i \in 1 .. Len(chain) :
         /\ chain[i] < header.pageCount
         /\ file[chain[i]] = IF i = 1 THEN 0 ELSE chain[i - 1]
         /\ \A j \in 1 .. Len(chain) : chain[i] = chain[j] => i = j

\* In every state, and so after every crash, the file has all the pages that the
\* header counts: "the file is immediately readable" (AllocatePage).
PagesReadable ==
  header # NoHeader => \A p \in Pages : p < header.pageCount => file[p] # Absent

\* Between any two of the pager's writes a crash leaves a file that the next
\* Open can go on with: its free list is sound and its pages are there.
FileSound == FreeListSound /\ PagesReadable

\* As long as the process does not crash, a page on the free list is not one
\* the trees use, over any number of closes and openings: AllocatePage hands a
\* page out to one of them at a time. FreePage writes past the log, so after a
\* crash the trees on disk may refer to a page on the list.
NoFreedPageInUse == ~crashed => \A i \in 1 .. Len(chain) : chain[i] \notin used

\* As long as the process does not crash, every page of the file is used or free.
\* A crash between the two writes of AllocatePage or FreePage loses the page.
NoPageLost ==
  ~crashed /\ mode # "down" /\ op \in {"idle", "root"} =>
    \A p \in Pages : p < pager.pageCount => p \in used \/ \E i \in 1 .. Len(chain) : chain[i] = p

\* As long as the process does not crash, the catalog's root page can be read:
\* "the next Open can reopen the existing catalog" (db.go:72). The root is in
\* the header at once and its node only in the pool, so after a crash it may
\* hold zeros, and Open fails from then on.
CatalogReopens == ~crashed => mode # "refused"
=============================================================================
