---------------------------- MODULE PagerProofs ----------------------------
(***************************************************************************)
(* For a file of any size: the free list on disk is sound in every state,  *)
(* crashes at any point included, the pages the header counts are there,   *)
(* and as long as there is no crash no page is both free and in use, none  *)
(* is lost, and the catalog can be opened again.                           *)
(***************************************************************************)
EXTENDS Pager, TLAPS

InChain(p) == \E i \in 1 .. Len(chain) : chain[i] = p

\* What holds between the two writes of a method.
Midway ==
  /\ op = "grow" => /\ mode \in {"opening", "open"}
                    /\ page = pager.pageCount /\ page \in Pages
                    /\ file[page] = 0
  /\ op = "link" => /\ mode = "open"
                    /\ page \in Pages /\ page < pager.pageCount
                    /\ file[page] = pager.freeListHead
                    /\ ~InChain(page) /\ page \notin fresh
  /\ op = "root" => mode = "opening" /\ page \in Pages

\* The inductive invariant: while a Pager exists its copies are the header's; a
\* page of the free list is not one whose node is only in the pool; before the
\* first Open nothing is allocated.
Inv ==
  /\ PagerTypeOK
  /\ FreeListSound
  /\ PagesReadable
  /\ header = NoHeader => mode = "down" /\ op = "idle" /\ chain = <<>> /\ fresh = {}
  /\ mode \in {"opening", "loading", "open"} => pager = header
  /\ Midway
  /\ \A p \in fresh : ~InChain(p)

\* A page of the free list has a link on it, so the trees cannot read it.
LEMMA FreeUnreadable ==
  ASSUME Inv, header # NoHeader, NEW p \in Pages, Readable(p)
  PROVE  ~InChain(p)
  <1>1. p \in fresh => ~InChain(p) BY DEF Inv
  <1>2. ASSUME file[p] = Node, InChain(p) PROVE FALSE
    <2>1. PICK i \in 1 .. Len(chain) : chain[i] = p BY <1>2 DEF InChain
    <2>2. file[p] = IF i = 1 THEN 0 ELSE chain[i - 1] BY <2>1 DEF Inv, FreeListSound
    <2>3. chain \in Seq(Pages) BY DEF Inv, PagerTypeOK
    <2>4. file[p] \in Nat
      <3>1. CASE i = 1 BY <3>1, <2>2
      <3>2. CASE i # 1
        <4>1. i - 1 \in 1 .. Len(chain) BY <3>2, <2>1, <2>3
        <4>2. chain[i - 1] \in Pages BY <4>1, <2>3
        <4> QED BY <4>2, <3>2, <2>2, PagerAssumption DEF Pages
      <3> QED BY <3>1, <3>2
    <2> QED BY <2>4, <1>2, PagerAssumption
  <1> QED BY <1>1, <1>2 DEF Readable

LEMMA InvInit == Init => Inv
  <1> SUFFICES ASSUME Init PROVE Inv OBVIOUS
  <1>1. PagerTypeOK
    <2>1. createHeader \in Headers BY PagerAssumption DEF createHeader, Headers
    <2>2. crashed \in BOOLEAN BY Zenon DEF Init
    <2> QED BY <2>1, <2>2, PagerAssumption DEF Init, PagerTypeOK, Contents, Pages
  <1>2. FreeListSound /\ PagesReadable /\ Midway BY DEF Init, FreeListSound, PagesReadable, Midway
  <1> QED BY <1>1, <1>2 DEF Init, Inv

LEMMA InvOpen == ASSUME Inv, OpenNew \/ OpenExisting PROVE Inv'
  <1>1. CASE OpenNew
    <2>1. createHeader \in Headers /\ createHeader # NoHeader
      BY PagerAssumption DEF createHeader, Headers
    <2>2. PagerTypeOK' BY <1>1, <2>1 DEF Inv, PagerTypeOK, OpenNew
    <2>3. FreeListSound' BY <1>1, <2>1 DEF Inv, OpenNew, FreeListSound, createHeader
    <2>4. PagesReadable' BY <1>1 DEF OpenNew, PagesReadable, createHeader, Pages
    <2>5. Midway' BY <1>1 DEF Inv, OpenNew, Midway
    <2> QED BY <1>1, <2>1, <2>2, <2>3, <2>4, <2>5 DEF Inv, OpenNew, InChain
  <1>2. CASE OpenExisting
    <2>1. header \in Headers BY <1>2 DEF Inv, PagerTypeOK, OpenExisting
    <2>2. PagerTypeOK' BY <1>2, <2>1 DEF Inv, PagerTypeOK, OpenExisting
    <2>3. FreeListSound' BY <1>2 DEF Inv, OpenExisting, FreeListSound
    <2>4. PagesReadable' BY <1>2 DEF Inv, OpenExisting, PagesReadable
    <2>5. Midway' BY <1>2 DEF Inv, OpenExisting, Midway
    <2> QED BY <1>2, <2>2, <2>3, <2>4, <2>5 DEF Inv, OpenExisting, InChain
  <1> QED BY <1>1, <1>2

LEMMA InvRoot == ASSUME Inv, SetCatalogRootPageID \/ OpenCatalog PROVE Inv'
  <1>1. CASE SetCatalogRootPageID
    <2>1. header \in Headers /\ pager = header /\ page \in Pages /\ page \in 0 .. MaxPages
      BY <1>1 DEF Inv, Midway, PagerTypeOK, SetCatalogRootPageID
    <2>2. /\ header' \in Headers /\ pager' = header' /\ header' # NoHeader
          /\ header'.pageCount = header.pageCount
          /\ header'.freeListHead = header.freeListHead
      BY <1>1, <2>1, PagerAssumption DEF SetCatalogRootPageID, Headers
    <2>7. /\ stored' = stored \cup {page} /\ mode' = "loading" /\ op' = "idle" /\ page' = 0
          /\ UNCHANGED <<file, used, fresh, chain, crashed>>
      BY <1>1 DEF SetCatalogRootPageID
    <2>8. PagerTypeOK /\ 0 \in 0 .. MaxPages BY PagerAssumption DEF Inv
    <2>3. PagerTypeOK' BY <2>1, <2>2, <2>7, <2>8 DEF PagerTypeOK
    <2>4. FreeListSound' BY <1>1, <2>1, <2>2, PagerAssumption DEF Inv, SetCatalogRootPageID, FreeListSound
    <2>5. PagesReadable' BY <1>1, <2>1, <2>2, PagerAssumption DEF Inv, SetCatalogRootPageID, PagesReadable
    <2>6. Midway' BY <1>1 DEF SetCatalogRootPageID, Midway
    <2> QED BY <1>1, <2>2, <2>3, <2>4, <2>5, <2>6 DEF Inv, SetCatalogRootPageID, InChain
  <1>2. CASE OpenCatalog
    <2>1. PagerTypeOK' BY <1>2 DEF Inv, PagerTypeOK, OpenCatalog
    <2>2. FreeListSound' BY <1>2 DEF Inv, OpenCatalog, FreeListSound
    <2>3. PagesReadable' BY <1>2 DEF Inv, OpenCatalog, PagesReadable
    <2>4. Midway' BY <1>2 DEF Inv, OpenCatalog, Midway
    <2>5. \A p \in fresh' : ~InChain(p)' BY <1>2 DEF Inv, OpenCatalog, InChain
    <2> QED BY <1>2, <2>1, <2>2, <2>3, <2>4, <2>5 DEF Inv, OpenCatalog
  <1> QED BY <1>1, <1>2

LEMMA InvReuse == ASSUME Inv, AllocateReuse PROVE Inv'
  <1> DEFINE n == Len(chain)
             id == pager.freeListHead
             next == IF file[id] \in Nat THEN file[id] ELSE NodeWord
  <1>1. header \in Headers /\ pager = header /\ header # NoHeader /\ id # 0
    BY DEF Inv, PagerTypeOK, AllocateReuse, CanAllocate
  <1>0. n = Len(chain) OBVIOUS
  <1>2. chain \in Seq(Pages) /\ n \in Nat BY DEF Inv, PagerTypeOK
  <1> HIDE DEF n
  <1>3. n > 0 /\ id = chain[n] /\ id \in Pages
    <2>1. id = IF chain = <<>> THEN 0 ELSE chain[n] BY <1>0, <1>1 DEF Inv, FreeListSound
    <2>2. chain # <<>> BY <2>1, <1>1
    <2> QED BY <2>1, <2>2, <1>0, <1>2
  <1>4. \A i \in 1 .. n : chain[i] \in Pages BY <1>0, <1>2
  <1>5. next = IF n = 1 THEN 0 ELSE chain[n - 1]
    <2>4. n \in 1 .. Len(chain) BY <1>0, <1>2, <1>3
    <2>1. file[id] = IF n = 1 THEN 0 ELSE chain[n - 1] BY <2>4, <1>1, <1>3 DEF Inv, FreeListSound
    <2>2. n # 1 => n - 1 \in 1 .. n BY <1>2, <1>3
    <2>3. file[id] \in Nat BY <2>1, <2>2, <1>4, PagerAssumption DEF Pages
    <2> QED BY <2>1, <2>3
  <1>6. chain' \in Seq(Pages) /\ Len(chain') = n - 1 /\ \A i \in 1 .. n - 1 : chain'[i] = chain[i]
    BY <1>0, <1>2, <1>3 DEF AllocateReuse
  <1>7. next \in 0 .. MaxPages
    <2>1. n # 1 => n - 1 \in 1 .. n BY <1>2, <1>3
    <2> QED BY <2>1, <1>4, <1>5, PagerAssumption DEF Pages
  <1> HIDE DEF next
  <1>8. /\ header' \in Headers /\ pager' = header' /\ header' # NoHeader
        /\ header'.pageCount = header.pageCount
        /\ header'.freeListHead = next
    <2>1. header' = [header EXCEPT !.freeListHead = next] /\ pager' = [pager EXCEPT !.freeListHead = next]
      BY DEF AllocateReuse, next
    <2> QED BY <2>1, <1>1, <1>7, PagerAssumption DEF Headers
  <1>9. /\ used' = used \cup {id} /\ fresh' = fresh \cup {id}
        /\ op' \in {"root", "idle"} /\ (op' = "root" => mode = "opening" /\ page' = id)
        /\ page' \in {id, 0} /\ UNCHANGED <<mode, stored, file, crashed>>
    BY DEF AllocateReuse, Allocated
  <1>10. PagerTypeOK'
    <2>1. PagerTypeOK /\ {id, 0} \subseteq 0 .. MaxPages BY <1>3, PagerAssumption DEF Inv, Pages
    <2> QED BY <2>1, <1>3, <1>6, <1>8, <1>9 DEF PagerTypeOK
  <1>11. FreeListSound'
    <2>1. header'.freeListHead = IF chain' = <<>> THEN 0 ELSE chain'[Len(chain')]
      <3>1. CASE n = 1 BY <3>1, <1>5, <1>6, <1>8
      <3>2. CASE n # 1
        <4>1. n - 1 \in 1 .. n - 1 BY <3>2, <1>2, <1>3
        <4> QED BY <4>1, <3>2, <1>5, <1>6, <1>8
      <3> QED BY <3>1, <3>2
    <2>2. ASSUME NEW i \in 1 .. Len(chain')
          PROVE  /\ chain'[i] < header'.pageCount
                 /\ file'[chain'[i]] = IF i = 1 THEN 0 ELSE chain'[i - 1]
                 /\ \A j \in 1 .. Len(chain') : chain'[i] = chain'[j] => i = j
      <3>1. i \in 1 .. n - 1 /\ i \in 1 .. n /\ (i # 1 => i - 1 \in 1 .. n - 1) BY <1>2, <1>6
      <3>2. /\ chain[i] < header.pageCount
            /\ file[chain[i]] = IF i = 1 THEN 0 ELSE chain[i - 1]
            /\ \A j \in 1 .. n : chain[i] = chain[j] => i = j
        BY <1>0, <1>1, <3>1 DEF Inv, FreeListSound
      <3>3. \A j \in 1 .. n - 1 : chain'[i] = chain'[j] => i = j
        <4>1. \A j \in 1 .. n - 1 : j \in 1 .. n BY <1>2
        <4> QED BY <4>1, <3>1, <3>2, <1>6
      <3> QED BY <3>1, <3>2, <3>3, <1>6, <1>8, <1>9
    <2> QED BY <2>1, <2>2 DEF FreeListSound
  <1>12. PagesReadable' BY <1>1, <1>8, <1>9 DEF Inv, PagesReadable
  <1>13. Midway' BY <1>3, <1>9 DEF Midway
  <1>14. \A p \in fresh' : ~InChain(p)'
    <2>1. \A i \in 1 .. n - 1 : chain'[i] # id
      <3>1. \A i \in 1 .. n - 1 : i \in 1 .. n /\ i # n BY <1>2
      <3>2. n \in 1 .. n BY <1>2, <1>3
      <3>3. \A i, j \in 1 .. n : chain[i] = chain[j] => i = j
        BY <1>0, <1>1 DEF Inv, FreeListSound
      <3> QED BY <3>1, <3>2, <3>3, <1>3, <1>6
    <2>2. \A p \in fresh, i \in 1 .. n - 1 : chain'[i] # p
      <3>1. \A i \in 1 .. n - 1 : i \in 1 .. n BY <1>2
      <3> QED BY <3>1, <1>0, <1>6 DEF Inv, InChain
    <2> QED BY <2>1, <2>2, <1>6, <1>9 DEF InChain
  <1> QED BY <1>8, <1>10, <1>11, <1>12, <1>13, <1>14 DEF Inv

LEMMA InvGrow == ASSUME Inv, AllocateZero \/ AllocateCount PROVE Inv'
  <1>0. header \in Headers /\ pager = header /\ header # NoHeader
    BY DEF Inv, Midway, PagerTypeOK, AllocateZero, AllocateCount, CanAllocate
  <1>1. CASE AllocateZero
    <2> DEFINE id == pager.pageCount
    <2>1. /\ file' = [file EXCEPT ![id] = 0] /\ op' = "grow" /\ page' = id
          /\ UNCHANGED <<header, pager, mode, used, fresh, stored, chain, crashed>>
          /\ mode \in {"opening", "open"}
      BY <1>1 DEF AllocateZero, CanAllocate
    <2>2. id \in Nat /\ id \in Pages /\ id \in 0 .. MaxPages
      BY <1>0, <1>1, PagerAssumption DEF AllocateZero, Headers, Pages
    <2>3. \A i \in 1 .. Len(chain) : chain[i] < id BY <1>0 DEF Inv, FreeListSound
    <2>4. \A i \in 1 .. Len(chain) : chain[i] # id BY <2>2, <2>3
    <2> HIDE DEF id
    <2>5. file \in [Pages -> Contents] /\ 0 \in Contents /\ Absent # 0
      BY PagerAssumption DEF Inv, PagerTypeOK, Contents
    <2>6. PagerTypeOK' BY <2>1, <2>2, <2>5 DEF Inv, PagerTypeOK
    <2>7. \A i \in 1 .. Len(chain) : file'[chain[i]] = file[chain[i]]
      <3>1. chain \in Seq(Pages) BY DEF Inv, PagerTypeOK
      <3>2. \A i \in 1 .. Len(chain) : chain[i] \in Pages BY <3>1
      <3> QED BY <3>2, <2>1, <2>4, <2>5
    <2>8. FreeListSound' BY <2>1, <2>7 DEF Inv, FreeListSound
    <2>9. PagesReadable' BY <2>1, <2>5 DEF Inv, PagesReadable
    <2>10. Midway' BY <2>1, <2>2, <2>5 DEF Midway, id
    <2> QED BY <1>0, <2>1, <2>6, <2>8, <2>9, <2>10 DEF Inv, InChain
  <1>2. CASE AllocateCount
    <2>1. /\ page = pager.pageCount /\ page \in Pages /\ file[page] = 0
          /\ mode \in {"opening", "open"}
      BY <1>2 DEF Inv, Midway, AllocateCount
    <2>2. /\ used' = used \cup {page} /\ fresh' = fresh \cup {page}
          /\ op' \in {"root", "idle"} /\ (op' = "root" => mode = "opening" /\ page' = page)
          /\ page' \in {page, 0} /\ UNCHANGED <<mode, stored, file, chain, crashed>>
      BY <1>2 DEF AllocateCount, Allocated
    <2>3. page \in 1 .. MaxPages /\ page + 1 \in 1 .. MaxPages + 1 /\ {page, 0} \subseteq 0 .. MaxPages
      BY <2>1, PagerAssumption DEF Pages
    <2>4. /\ header' = [header EXCEPT !.pageCount = page + 1]
          /\ pager' = [header EXCEPT !.pageCount = page + 1]
      BY <1>0, <1>2, <2>1 DEF AllocateCount
    <2>5. /\ header' \in Headers /\ pager' = header' /\ header' # NoHeader
          /\ header'.pageCount = page + 1
          /\ header'.freeListHead = header.freeListHead
      BY <1>0, <2>3, <2>4, PagerAssumption DEF Headers
    <2>6. PagerTypeOK' BY <2>1, <2>2, <2>3, <2>5 DEF Inv, PagerTypeOK
    <2>7. chain \in Seq(Pages) /\ \A i \in 1 .. Len(chain) : chain[i] < page
      BY <1>0, <2>1 DEF Inv, PagerTypeOK, FreeListSound
    <2>14. \A i \in 1 .. Len(chain) : chain[i] \in Pages BY <2>7
    <2>8. \A i \in 1 .. Len(chain) : chain[i] \in 1 .. MaxPages BY <2>14 DEF Pages
    <2>9. \A i \in 1 .. Len(chain) : chain[i] < page + 1 /\ chain[i] # page BY <2>3, <2>7, <2>8
    <2>10. FreeListSound' BY <1>0, <2>2, <2>5, <2>9 DEF Inv, FreeListSound
    <2>11. PagesReadable'
      <3>1. \A p \in Pages : p < page + 1 => p < page \/ p = page BY <2>3 DEF Pages
      <3> QED BY <3>1, <1>0, <2>1, <2>2, <2>5, PagerAssumption DEF Inv, PagesReadable
    <2>12. Midway' BY <2>1, <2>2 DEF Midway
    <2>13. \A p \in fresh' : ~InChain(p)' BY <2>2, <2>9 DEF Inv, InChain
    <2> QED BY <2>2, <2>5, <2>6, <2>10, <2>11, <2>12, <2>13 DEF Inv
  <1> QED BY <1>1, <1>2

LEMMA InvFree == ASSUME Inv, (\E p \in Pages : FreeLink(p)) \/ FreeHead PROVE Inv'
  <1>0. header \in Headers /\ pager = header /\ header # NoHeader /\ mode = "open"
    BY DEF Inv, Midway, PagerTypeOK, FreeLink, FreeHead
  <1>1. chain \in Seq(Pages) /\ \A i \in 1 .. Len(chain) : chain[i] \in Pages
    <2>1. chain \in Seq(Pages) BY DEF Inv, PagerTypeOK
    <2> QED BY <2>1
  <1>2. ASSUME NEW p \in Pages, FreeLink(p) PROVE Inv'
    <2>1. /\ file' = [file EXCEPT ![p] = pager.freeListHead] /\ op' = "link" /\ page' = p
          /\ used' = used \ {p} /\ fresh' = fresh \ {p}
          /\ UNCHANGED <<header, pager, mode, stored, chain, crashed>>
      BY <1>2 DEF FreeLink
    <2>2. ~InChain(p) /\ p < pager.pageCount
      BY <1>0, <1>2, FreeUnreadable DEF FreeLink, Readable
    <2>3. pager.freeListHead \in 0 .. MaxPages /\ pager.freeListHead # Absent
      BY <1>0, PagerAssumption DEF Headers
    <2>4. file \in [Pages -> Contents] BY DEF Inv, PagerTypeOK
    <2>5. PagerTypeOK'
      <3>1. pager.freeListHead \in Contents BY <2>3 DEF Contents
      <3>2. p \in 0 .. MaxPages BY PagerAssumption DEF Pages
      <3> QED BY <3>1, <3>2, <2>1, <2>4 DEF Inv, PagerTypeOK
    <2>6. \A i \in 1 .. Len(chain) : file'[chain[i]] = file[chain[i]]
      BY <1>1, <2>1, <2>2, <2>4 DEF InChain
    <2>7. FreeListSound' BY <2>1, <2>6 DEF Inv, FreeListSound
    <2>8. PagesReadable' BY <2>1, <2>3, <2>4 DEF Inv, PagesReadable
    <2>9. Midway' BY <1>0, <2>1, <2>2, <2>4 DEF Midway, InChain
    <2> QED BY <1>0, <2>1, <2>5, <2>7, <2>8, <2>9 DEF Inv, InChain
  <1>3. CASE FreeHead
    <2> DEFINE n == Len(chain)
    <2>0. n = Len(chain) /\ n \in Nat BY <1>1
    <2> HIDE DEF n
    <2>1. /\ page \in Pages /\ page < header.pageCount /\ ~InChain(page)
          /\ file[page] = header.freeListHead
      BY <1>0, <1>3 DEF Inv, Midway, FreeHead
    <2>2. /\ header' = [header EXCEPT !.freeListHead = page]
          /\ pager' = [header EXCEPT !.freeListHead = page]
          /\ chain' = Append(chain, page) /\ op' = "idle" /\ page' = 0
          /\ UNCHANGED <<file, mode, used, fresh, stored, crashed>>
      BY <1>0, <1>3 DEF FreeHead
    <2>3. page \in 0 .. MaxPages /\ 0 \in 0 .. MaxPages BY <2>1, PagerAssumption DEF Pages
    <2>4. /\ header' \in Headers /\ pager' = header' /\ header' # NoHeader
          /\ header'.pageCount = header.pageCount
          /\ header'.freeListHead = page
      BY <1>0, <2>2, <2>3, PagerAssumption DEF Headers
    <2>5. /\ chain' \in Seq(Pages) /\ Len(chain') = n + 1 /\ chain'[n + 1] = page
          /\ \A i \in 1 .. n : chain'[i] = chain[i]
      BY <1>1, <2>0, <2>1, <2>2
    <2>6. PagerTypeOK' BY <2>2, <2>3, <2>4, <2>5 DEF Inv, PagerTypeOK
    <2>7. \A i \in 1 .. n : chain[i] # page BY <2>0, <2>1 DEF InChain
    <2>8. FreeListSound'
      <3>1. header'.freeListHead = IF chain' = <<>> THEN 0 ELSE chain'[Len(chain')]
        <4>1. chain' # <<>> BY <2>0, <2>5
        <4> QED BY <4>1, <2>4, <2>5
      <3>2. ASSUME NEW i \in 1 .. Len(chain')
            PROVE  /\ chain'[i] < header'.pageCount
                   /\ file'[chain'[i]] = IF i = 1 THEN 0 ELSE chain'[i - 1]
                   /\ \A j \in 1 .. Len(chain') : chain'[i] = chain'[j] => i = j
        <4>1. \A j \in 1 .. n + 1 : j \in 1 .. n \/ j = n + 1 BY <2>0
        <4>2. CASE i = n + 1
          <5>1. chain'[i] = page BY <4>2, <2>5
          <5>2. header.freeListHead = IF n = 0 THEN 0 ELSE chain[n]
            <6>1. n = 0 <=> chain = <<>> BY <1>1, <2>0
            <6> QED BY <6>1, <2>0, <1>0 DEF Inv, FreeListSound
          <5>3. n # 0 => n \in 1 .. n BY <2>0
          <5>4. file'[chain'[i]] = IF i = 1 THEN 0 ELSE chain'[i - 1]
            <6>1. i - 1 = n /\ (i = 1 <=> n = 0) BY <4>2, <2>0
            <6> QED BY <6>1, <5>1, <5>2, <5>3, <2>1, <2>2, <2>5
          <5>5. \A j \in 1 .. n + 1 : chain'[i] = chain'[j] => i = j
            BY <4>1, <4>2, <5>1, <2>5, <2>7
          <5> QED BY <5>1, <5>4, <5>5, <2>1, <2>4, <2>5
        <4>3. CASE i \in 1 .. n
          <5>1. i # 1 => i - 1 \in 1 .. n BY <4>3, <2>0
          <5>2. /\ chain[i] < header.pageCount
                /\ file[chain[i]] = IF i = 1 THEN 0 ELSE chain[i - 1]
                /\ \A j \in 1 .. n : chain[i] = chain[j] => i = j
            BY <4>3, <2>0, <1>0 DEF Inv, FreeListSound
          <5>3. \A j \in 1 .. n + 1 : chain'[i] = chain'[j] => i = j
            BY <4>1, <4>3, <5>2, <2>5, <2>7
          <5> QED BY <5>1, <5>2, <5>3, <4>3, <2>2, <2>4, <2>5
        <4> QED BY <4>1, <4>2, <4>3, <2>5
      <3> QED BY <3>1, <3>2 DEF FreeListSound
    <2>9. PagesReadable' BY <1>0, <2>2, <2>4 DEF Inv, PagesReadable
    <2>10. Midway' BY <2>2 DEF Midway
    <2>11. \A p \in fresh' : ~InChain(p)'
      <3>1. \A p \in fresh : p # page
        BY <1>3 DEF Inv, Midway, FreeHead
      <3> QED BY <3>1, <2>0, <2>2, <2>5 DEF Inv, InChain
    <2> QED BY <2>2, <2>4, <2>6, <2>8, <2>9, <2>10, <2>11 DEF Inv
  <1> QED BY <1>2, <1>3

LEMMA InvWrite == ASSUME Inv, (\E p \in Pages : WritePage(p)) \/ Close PROVE Inv'
  <1>0. header \in Headers /\ pager = header /\ header # NoHeader /\ mode = "open" /\ op = "idle"
    BY DEF Inv, PagerTypeOK, WritePage, Close
  <1>1. chain \in Seq(Pages) /\ \A i \in 1 .. Len(chain) : chain[i] \in Pages
    <2>1. chain \in Seq(Pages) BY DEF Inv, PagerTypeOK
    <2> QED BY <2>1
  <1>2. file \in [Pages -> Contents] /\ Node \in Contents /\ Node # Absent
    BY PagerAssumption DEF Inv, PagerTypeOK, Contents
  <1>3. ASSUME NEW p \in Pages, WritePage(p) PROVE Inv'
    <2>1. /\ file' = [file EXCEPT ![p] = Node] /\ fresh' = fresh \ {p}
          /\ stored' \in SUBSET (stored \cup used)
          /\ UNCHANGED <<header, pager, mode, op, page, used, chain, crashed>>
      BY <1>3 DEF WritePage
    <2>2. ~InChain(p) BY <1>0, <1>3, FreeUnreadable DEF WritePage
    <2>3. PagerTypeOK' BY <1>2, <2>1 DEF Inv, PagerTypeOK
    <2>4. \A i \in 1 .. Len(chain) : file'[chain[i]] = file[chain[i]]
      BY <1>1, <1>2, <2>1, <2>2 DEF InChain
    <2>5. FreeListSound' BY <2>1, <2>4 DEF Inv, FreeListSound
    <2>6. PagesReadable' BY <1>2, <2>1 DEF Inv, PagesReadable
    <2>7. Midway' BY <1>0, <2>1 DEF Midway
    <2> QED BY <1>0, <2>1, <2>3, <2>5, <2>6, <2>7 DEF Inv, InChain
  <1>4. CASE Close
    <2>1. /\ file' = [p \in Pages |-> IF p \in fresh THEN Node ELSE file[p]]
          /\ stored' = used /\ fresh' = {} /\ mode' = "down"
          /\ UNCHANGED <<header, pager, op, page, used, chain, crashed>>
      BY <1>4 DEF Close
    <2>2. PagerTypeOK' BY <1>2, <2>1 DEF Inv, PagerTypeOK
    <2>3. \A i \in 1 .. Len(chain) : file'[chain[i]] = file[chain[i]]
      BY <1>1, <2>1 DEF Inv, InChain
    <2>4. FreeListSound' BY <2>1, <2>3 DEF Inv, FreeListSound
    <2>5. PagesReadable' BY <1>2, <2>1 DEF Inv, PagesReadable
    <2>6. Midway' BY <1>0, <2>1 DEF Midway
    <2> QED BY <1>0, <2>1, <2>2, <2>4, <2>5, <2>6 DEF Inv
  <1> QED BY <1>3, <1>4

LEMMA InvCrash == ASSUME Inv, Crash PROVE Inv'
  <1>1. PagerTypeOK' BY PagerAssumption DEF Inv, PagerTypeOK, Crash
  <1>2. FreeListSound' /\ PagesReadable' BY DEF Inv, Crash, FreeListSound, PagesReadable
  <1>3. Midway' BY DEF Crash, Midway
  <1> QED BY <1>1, <1>2, <1>3 DEF Inv, Crash

LEMMA InvNext == Inv /\ [Next]_vars => Inv'
  <1> SUFFICES ASSUME Inv, [Next]_vars PROVE Inv' OBVIOUS
  <1>1. CASE UNCHANGED vars
    BY <1>1 DEF vars, Inv, PagerTypeOK, FreeListSound, PagesReadable, Midway, InChain
  <1> QED BY <1>1, InvOpen, InvRoot, InvReuse, InvGrow, InvFree, InvWrite, InvCrash DEF Next

\* The inductive invariant holds in every state of every behaviour.
THEOREM PagerInvariant == Spec => []Inv
  BY InvInit, InvNext, PTL DEF Spec

\* All variables keep their types: no link that AllocatePage reads as the new
\* head leads out of the file.
THEOREM PagerTyped == Spec => []PagerTypeOK
  BY PagerInvariant, PTL DEF Inv

\* The free list of pager.go is sound after every step of AllocatePage and
\* FreePage, a crash after their first write included.
THEOREM FreeListAlwaysSound == Spec => []FreeListSound
  BY PagerInvariant, PTL DEF Inv

\* Every page the header counts can be read.
THEOREM PagesAlwaysReadable == Spec => []PagesReadable
  BY PagerInvariant, PTL DEF Inv

\* After every single write of the pager the file is one to go on with.
THEOREM FileAlwaysSound == Spec => []FileSound
  BY FreeListAlwaysSound, PagesAlwaysReadable, PTL DEF FileSound

-----------------------------------------------------------------------------
(* As long as the process has not crashed *)

Inv2 ==
  /\ NoFreedPageInUse
  /\ ~crashed /\ op = "link" => page \notin used

LEMMA InUseNext == ASSUME Inv, Inv2, [Next]_vars PROVE Inv2'
  <1>0. chain \in Seq(Pages) /\ chain' \in Seq(Pages)
    BY InvNext DEF Inv, PagerTypeOK
  <1>1. CASE AllocateReuse
    <2> DEFINE n == Len(chain)
               id == pager.freeListHead
    <2>0. n = Len(chain) /\ n \in Nat BY <1>0
    <2> HIDE DEF n
    <2>1. pager = header /\ header # NoHeader /\ id # 0
      BY <1>1 DEF Inv, AllocateReuse, CanAllocate
    <2>2. chain # <<>> /\ id = chain[n] BY <2>0, <2>1 DEF Inv, FreeListSound
    <2>3. n > 0 BY <2>0, <2>2, <1>0
    <2>4. Len(chain') = n - 1 /\ \A i \in 1 .. n - 1 : chain'[i] = chain[i]
      BY <1>0, <1>1, <2>0, <2>3 DEF AllocateReuse
    <2>5. used' = used \cup {id} /\ op' # "link" /\ UNCHANGED crashed BY <1>1 DEF AllocateReuse, Allocated
    <2>6. \A i \in 1 .. n - 1 : i \in 1 .. n /\ n \in 1 .. n /\ i # n BY <2>0, <2>3
    <2>7. \A i \in 1 .. n - 1 : chain[i] # id
      BY <2>0, <2>1, <2>2, <2>6 DEF Inv, FreeListSound
    <2> QED BY <2>0, <2>4, <2>5, <2>6, <2>7 DEF Inv2, NoFreedPageInUse
  <1>2. CASE AllocateCount
    <2>1. pager = header /\ header # NoHeader /\ page = header.pageCount /\ page \in Pages
      BY <1>2 DEF Inv, Midway, AllocateCount
    <2>2. \A i \in 1 .. Len(chain) : chain[i] < page /\ chain[i] \in Pages
      BY <1>0, <2>1 DEF Inv, FreeListSound
    <2>3. \A i \in 1 .. Len(chain) : chain[i] # page BY <2>1, <2>2 DEF Pages
    <2>4. used' = used \cup {page} /\ op' # "link" /\ UNCHANGED <<chain, crashed>>
      BY <1>2 DEF AllocateCount, Allocated
    <2> QED BY <2>3, <2>4 DEF Inv2, NoFreedPageInUse
  <1>3. ASSUME NEW p \in Pages, FreeLink(p) PROVE Inv2'
    BY <1>3 DEF FreeLink, Inv2, NoFreedPageInUse
  <1>4. CASE FreeHead
    <2> DEFINE n == Len(chain)
    <2>0. n = Len(chain) /\ n \in Nat BY <1>0
    <2> HIDE DEF n
    <2>1. /\ ~crashed => page \notin used
          /\ page \in Pages /\ used' = used /\ op' = "idle" /\ UNCHANGED crashed
      BY <1>4 DEF Inv, Midway, Inv2, FreeHead
    <2>2. /\ Len(chain') = n + 1 /\ chain'[n + 1] = page
          /\ \A i \in 1 .. n : chain'[i] = chain[i]
      BY <1>0, <1>4, <2>0, <2>1 DEF FreeHead
    <2>3. \A j \in 1 .. n + 1 : j \in 1 .. n \/ j = n + 1 BY <2>0
    <2> QED BY <2>0, <2>1, <2>2, <2>3 DEF Inv2, NoFreedPageInUse
  <1>5. CASE OpenNew \/ OpenExisting \/ SetCatalogRootPageID \/ OpenCatalog
    BY <1>5 DEF OpenNew, OpenExisting, SetCatalogRootPageID, OpenCatalog, Inv2, NoFreedPageInUse
  <1>6. CASE AllocateZero \/ Close \/ \E p \in Pages : WritePage(p)
    BY <1>6 DEF AllocateZero, Close, WritePage, Inv2, NoFreedPageInUse
  <1>7. CASE Crash
    <2>1. crashed' BY <1>7, Zenon DEF Crash
    <2> QED BY <2>1, Zenon DEF Inv2, NoFreedPageInUse
  <1>8. CASE UNCHANGED vars BY <1>8 DEF vars, Inv2, NoFreedPageInUse
  <1> QED BY <1>1, <1>2, <1>3, <1>4, <1>5, <1>6, <1>7, <1>8 DEF Next

\* As long as the process does not crash, no page is on the free list and in a
\* tree, over any number of closes and openings, so AllocatePage gives a page to
\* one tree at a time.
THEOREM FreedPagesNotInUse == Spec => []NoFreedPageInUse
  <1>1. Init => Inv2 BY DEF Init, Inv2, NoFreedPageInUse
  <1>2. Inv /\ Inv2 /\ [Next]_vars => Inv2' BY InUseNext
  <1>3. Inv2 => NoFreedPageInUse BY DEF Inv2
  <1> QED BY <1>1, <1>2, <1>3, PagerInvariant, PTL DEF Spec

\* The catalog's root is in the file's range and readable, from the moment that
\* SetCatalogRootPageID puts it in the header: its node is in the pool or on disk.
RootReadable ==
  ~crashed =>
    /\ mode # "refused"
    /\ op = "root" => page \in fresh /\ page < header.pageCount
    /\ mode = "loading" => header.catalogRootPageID # 0
    /\ header # NoHeader /\ header.catalogRootPageID # 0 =>
         /\ header.catalogRootPageID < header.pageCount
         /\ header.catalogRootPageID \in fresh \/ file[header.catalogRootPageID] = Node

LEMMA RootNext == ASSUME Inv, RootReadable, [Next]_vars PROVE RootReadable'
  <1> SUFFICES ASSUME ~crashed' PROVE RootReadable' BY DEF RootReadable
  <1>1. CASE OpenNew
    BY <1>1 DEF OpenNew, createHeader, RootReadable, Inv
  <1>2. CASE OpenExisting
    BY <1>2 DEF OpenExisting, RootReadable, Inv, Midway
  <1>3. CASE SetCatalogRootPageID
    <2>1. /\ op = "root" /\ mode = "opening" /\ page \in Pages /\ page # 0
          /\ header \in Headers /\ ~crashed
      BY <1>3, PagerAssumption DEF SetCatalogRootPageID, Inv, Midway, Pages, PagerTypeOK
    <2>2. header'.catalogRootPageID = page /\ header'.pageCount = header.pageCount
      BY <1>3, <2>1 DEF SetCatalogRootPageID, Headers
    <2> QED BY <1>3, <2>1, <2>2 DEF SetCatalogRootPageID, RootReadable
  <1>4. CASE OpenCatalog
    <2>1. pager = header /\ header # NoHeader /\ ~crashed
      BY <1>4 DEF OpenCatalog, Inv
    <2>2. Readable(pager.catalogRootPageID)
      BY <1>4, <2>1 DEF OpenCatalog, RootReadable, Readable
    <2> QED BY <1>4, <2>1, <2>2 DEF OpenCatalog, RootReadable, Inv, Midway
  <1>5. CASE AllocateReuse
    <2>1. pager = header /\ header \in Headers /\ header # NoHeader /\ ~crashed
      BY <1>5, Zenon DEF AllocateReuse, Allocated, CanAllocate, Inv, PagerTypeOK
    <2>2. PICK next : header' = [header EXCEPT !.freeListHead = next]
      BY <1>5 DEF AllocateReuse
    <2>3. /\ header'.catalogRootPageID = header.catalogRootPageID
          /\ header'.pageCount = header.pageCount
      BY <2>1, <2>2 DEF Headers
    <2>4. /\ fresh' = fresh \cup {pager.freeListHead} /\ UNCHANGED <<file, mode>>
          /\ op' = "root" => page' = pager.freeListHead
          /\ pager.freeListHead < pager.pageCount
          /\ mode \in {"opening", "open"}
      BY <1>5 DEF AllocateReuse, Allocated, CanAllocate
    <2> QED BY <2>1, <2>3, <2>4 DEF RootReadable
  <1>6. CASE AllocateZero
    <2>1. /\ pager = header /\ header \in Headers /\ header # NoHeader /\ ~crashed
          /\ file \in [Pages -> Contents]
      BY <1>6 DEF AllocateZero, CanAllocate, Inv, PagerTypeOK
    <2>2. \A p \in Pages : p # header.pageCount => file'[p] = file[p]
      BY <1>6, <2>1 DEF AllocateZero
    <2>3. header.catalogRootPageID # 0 => header.catalogRootPageID \in Pages
      BY <2>1, PagerAssumption DEF Headers, Pages
    <2>4. header.catalogRootPageID # 0 => header.catalogRootPageID # header.pageCount
      BY <2>1 DEF RootReadable, Headers
    <2> QED BY <1>6, <2>1, <2>2, <2>3, <2>4 DEF AllocateZero, RootReadable, CanAllocate
  <1>7. CASE AllocateCount
    <2>1. /\ pager = header /\ header \in Headers /\ header # NoHeader /\ ~crashed
          /\ page = header.pageCount /\ mode \in {"opening", "open"}
      BY <1>7 DEF AllocateCount, Allocated, Inv, Midway, PagerTypeOK
    <2>2. /\ header'.catalogRootPageID = header.catalogRootPageID
          /\ header'.pageCount = header.pageCount + 1
      BY <1>7, <2>1 DEF AllocateCount, Headers
    <2>3. /\ fresh' = fresh \cup {page} /\ UNCHANGED <<file, mode>>
          /\ op' = "root" => page' = page
      BY <1>7 DEF AllocateCount, Allocated
    <2>4. page < header'.pageCount
          /\ (header.catalogRootPageID < header.pageCount
                => header.catalogRootPageID < header'.pageCount)
      BY <2>1, <2>2, PagerAssumption DEF Headers
    <2> QED BY <2>1, <2>2, <2>3, <2>4 DEF RootReadable
  <1>8. ASSUME NEW p \in Pages, FreeLink(p) PROVE RootReadable'
    <2>1. /\ pager = header /\ header \in Headers /\ header # NoHeader /\ ~crashed
          /\ file \in [Pages -> Contents] /\ p # header.catalogRootPageID
      BY <1>8 DEF FreeLink, Inv, PagerTypeOK
    <2>2. header.catalogRootPageID # 0 => header.catalogRootPageID \in Pages
      BY <2>1, PagerAssumption DEF Headers, Pages
    <2>3. \A q \in Pages : q # p => file'[q] = file[q]
      BY <1>8, <2>1 DEF FreeLink
    <2> QED BY <1>8, <2>1, <2>2, <2>3 DEF FreeLink, RootReadable
  <1>9. CASE FreeHead
    <2>1. header \in Headers /\ ~crashed
      BY <1>9 DEF FreeHead, Inv, PagerTypeOK
    <2>2. /\ header'.catalogRootPageID = header.catalogRootPageID
          /\ header'.pageCount = header.pageCount
      BY <1>9, <2>1 DEF FreeHead, Headers
    <2>3. header # NoHeader
      BY <2>1, PagerAssumption
    <2> QED BY <1>9, <2>1, <2>2, <2>3 DEF FreeHead, RootReadable
  <1>10. ASSUME NEW p \in Pages, WritePage(p) PROVE RootReadable'
    <2>1. file \in [Pages -> Contents] /\ ~crashed /\ header \in Headers
      BY <1>10 DEF WritePage, Inv, PagerTypeOK
    <2>2. header.catalogRootPageID # 0 => header.catalogRootPageID \in Pages
      BY <2>1, PagerAssumption DEF Headers, Pages
    <2>3. file'[p] = Node /\ \A q \in Pages : q # p => file'[q] = file[q]
      BY <1>10, <2>1 DEF WritePage
    <2> QED BY <1>10, <2>1, <2>2, <2>3 DEF WritePage, RootReadable
  <1>11. CASE Close
    <2>1. file \in [Pages -> Contents] /\ ~crashed /\ header \in Headers
      BY <1>11 DEF Close, Inv, PagerTypeOK
    <2>2. header.catalogRootPageID # 0 => header.catalogRootPageID \in Pages
      BY <2>1, PagerAssumption DEF Headers, Pages
    <2>3. \A q \in Pages : file'[q] = IF q \in fresh THEN Node ELSE file[q]
      BY <1>11 DEF Close
    <2> QED BY <1>11, <2>1, <2>2, <2>3 DEF Close, RootReadable
  <1>12. CASE Crash
    BY <1>12, Zenon DEF Crash
  <1>13. CASE UNCHANGED vars
    BY <1>13 DEF vars, RootReadable
  <1> QED BY <1>1, <1>2, <1>3, <1>4, <1>5, <1>6, <1>7, <1>8, <1>9, <1>10, <1>11, <1>12, <1>13
          DEF Next

\* A database that was never cut off can always be opened again: the root page
\* that the header names holds a node.
THEOREM CatalogAlwaysReopens == Spec => []CatalogReopens
  <1>1. Init => RootReadable BY DEF Init, RootReadable
  <1>2. Inv /\ RootReadable /\ [Next]_vars => RootReadable' BY RootNext
  <1>3. RootReadable => CatalogReopens BY DEF RootReadable, CatalogReopens
  <1> QED BY <1>1, <1>2, <1>3, PagerInvariant, PTL DEF Spec

\* A page that the header counts is used, on the list, or on its way to the list
\* between the two writes of FreePage.
PagesKept ==
  ~crashed /\ header # NoHeader =>
    \A p \in Pages : p < header.pageCount =>
      p \in used \/ InChain(p) \/ (op = "link" /\ p = page)

LEMMA KeptNext == ASSUME Inv, PagesKept, [Next]_vars PROVE PagesKept'
  <1> SUFFICES ASSUME ~crashed', header' # NoHeader, NEW p \in Pages, p < header'.pageCount
               PROVE  p \in used' \/ InChain(p)' \/ (op' = "link" /\ p = page')
    BY DEF PagesKept
  <1>0. chain \in Seq(Pages) /\ chain' \in Seq(Pages)
    BY InvNext DEF Inv, PagerTypeOK
  <1>1. CASE OpenNew
    BY <1>1, PagerAssumption DEF OpenNew, createHeader, Pages
  <1>2. CASE OpenExisting \/ OpenCatalog
    BY <1>2 DEF OpenExisting, OpenCatalog, PagesKept, InChain
  <1>3. CASE SetCatalogRootPageID
    <2>1. header \in Headers /\ header # NoHeader /\ ~crashed /\ op = "root"
      BY <1>3, PagerAssumption DEF SetCatalogRootPageID, Inv, PagerTypeOK, Midway
    <2>2. header'.pageCount = header.pageCount
      BY <1>3, <2>1 DEF SetCatalogRootPageID, Headers
    <2> QED BY <1>3, <2>1, <2>2 DEF SetCatalogRootPageID, PagesKept, InChain
  <1>4. CASE AllocateReuse
    <2> DEFINE n == Len(chain)
               id == pager.freeListHead
    <2>0. n = Len(chain) /\ n \in Nat BY <1>0
    <2> HIDE DEF n
    <2>1. /\ pager = header /\ header \in Headers /\ header # NoHeader /\ id # 0
          /\ op = "idle" /\ ~crashed
      BY <1>4 DEF Inv, AllocateReuse, CanAllocate, PagerTypeOK, Allocated
    <2>2. chain # <<>> /\ id = chain[n] BY <2>0, <2>1 DEF Inv, FreeListSound
    <2>3. n > 0 BY <2>0, <2>2, <1>0
    <2>4. Len(chain') = n - 1 /\ \A i \in 1 .. n - 1 : chain'[i] = chain[i]
      BY <1>0, <1>4, <2>0, <2>3 DEF AllocateReuse
    <2>5. used' = used \cup {id} BY <1>4 DEF AllocateReuse, Allocated
    <2>6. PICK next : header' = [header EXCEPT !.freeListHead = next]
      BY <1>4 DEF AllocateReuse
    <2>7. header'.pageCount = header.pageCount BY <2>1, <2>6 DEF Headers
    <2>8. p \in used \/ InChain(p) BY <2>1, <2>7 DEF PagesKept
    <2>9. ASSUME InChain(p), p # id PROVE InChain(p)'
      <3>1. PICK i \in 1 .. n : chain[i] = p BY <2>0, <2>9 DEF InChain
      <3>2. i \in 1 .. n - 1 BY <3>1, <2>0, <2>2, <2>9
      <3> QED BY <3>1, <3>2, <2>4 DEF InChain
    <2> QED BY <2>5, <2>8, <2>9
  <1>5. CASE AllocateZero
    <2>1. header # NoHeader /\ ~crashed /\ op = "idle"
      BY <1>5 DEF AllocateZero, CanAllocate, Inv
    <2> QED BY <1>5, <2>1 DEF AllocateZero, PagesKept, InChain
  <1>6. CASE AllocateCount
    <2>1. /\ pager = header /\ header \in Headers /\ header # NoHeader /\ ~crashed
          /\ page = header.pageCount /\ op = "grow"
      BY <1>6 DEF AllocateCount, Allocated, Inv, Midway, PagerTypeOK
    <2>2. header'.pageCount = header.pageCount + 1
      BY <1>6, <2>1 DEF AllocateCount, Headers
    <2>3. p = page \/ p < header.pageCount
      BY <2>1, <2>2, PagerAssumption DEF Headers, Pages
    <2>4. used' = used \cup {page} /\ UNCHANGED chain
      BY <1>6 DEF AllocateCount, Allocated
    <2> QED BY <2>1, <2>3, <2>4 DEF PagesKept, InChain
  <1>7. ASSUME NEW q \in Pages, FreeLink(q)
        PROVE  p \in used' \/ InChain(p)' \/ (op' = "link" /\ p = page')
    BY <1>7 DEF FreeLink, PagesKept, InChain
  <1>8. CASE FreeHead
    <2> DEFINE n == Len(chain)
    <2>0. n = Len(chain) /\ n \in Nat BY <1>0
    <2> HIDE DEF n
    <2>1. page \in Pages /\ header \in Headers /\ header # NoHeader /\ ~crashed
      BY <1>8, PagerAssumption DEF FreeHead, Inv, Midway, PagerTypeOK
    <2>2. header'.pageCount = header.pageCount /\ used' = used
      BY <1>8, <2>1 DEF FreeHead, Headers
    <2>3. /\ Len(chain') = n + 1 /\ chain'[n + 1] = page
          /\ \A i \in 1 .. n : chain'[i] = chain[i]
      BY <1>0, <1>8, <2>0, <2>1 DEF FreeHead
    <2>4. n + 1 \in 1 .. n + 1 /\ \A i \in 1 .. n : i \in 1 .. n + 1 BY <2>0
    <2>5. InChain(p) \/ p = page => InChain(p)'
      BY <2>0, <2>3, <2>4 DEF InChain
    <2> QED BY <2>1, <2>2, <2>5 DEF PagesKept
  <1>9. CASE Close \/ \E q \in Pages : WritePage(q)
    BY <1>9 DEF Close, WritePage, PagesKept, InChain
  <1>10. CASE Crash
    BY <1>10, Zenon DEF Crash
  <1>11. CASE UNCHANGED vars
    BY <1>11 DEF vars, PagesKept, InChain
  <1> QED BY <1>1, <1>2, <1>3, <1>4, <1>5, <1>6, <1>7, <1>8, <1>9, <1>10, <1>11 DEF Next

\* As long as the process does not crash the pager loses no page: what FreePage
\* takes from the trees is there for AllocatePage to hand out again.
THEOREM PagesNeverLost == Spec => []NoPageLost
  <1>1. Init => PagesKept BY DEF Init, PagesKept
  <1>2. Inv /\ PagesKept /\ [Next]_vars => PagesKept' BY KeptNext
  <1>3. Inv /\ PagesKept /\ CatalogReopens => NoPageLost
    <2> SUFFICES ASSUME Inv, PagesKept, CatalogReopens, ~crashed, mode # "down",
                        op \in {"idle", "root"}, NEW p \in Pages, p < pager.pageCount
                 PROVE  p \in used \/ \E i \in 1 .. Len(chain) : chain[i] = p
      BY DEF NoPageLost
    <2>1. mode \in {"opening", "loading", "open"}
      BY DEF Inv, PagerTypeOK, CatalogReopens
    <2>2. pager = header /\ header # NoHeader
      BY <2>1 DEF Inv
    <2> QED BY <2>2 DEF PagesKept, InChain
  <1> QED BY <1>1, <1>2, <1>3, PagerInvariant, CatalogAlwaysReopens, PTL DEF Spec
=============================================================================
