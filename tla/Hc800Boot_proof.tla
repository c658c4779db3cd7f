-------------------------- MODULE Hc800Boot_proof --------------------------
(***************************************************************************)
(* Proofs about the HC-800's boot chain, as MCFlasher instances it: the     *)
(* factory restore, which wipes the box, runs only when it was asked for,   *)
(* for any number of operations, presses of the button and power cuts.      *)
(***************************************************************************)
EXTENDS MCFlasher, Integers, FiniteSetTheorems, SequenceTheorems, TLAPS

-----------------------------------------------------------------------------
(* The HC-800.  The menus that are ever written whole: Control4's, with our *)
(* entry for one boot or for good, with the two of a restore, and with those *)
(* two left by an uninstall that found no backup.                           *)
Stocks == {Hc!Vendors, Append(Hc!Vendors, Hc!Entry("extra", Hc!None))}
Once(l) == <<Hc!Entry("once", Len(l) + 1), Hc!Entry("firstboot", Hc!ENTRY_VENDOR)>>
MenuOf(g, d, l, o) == [guarded |-> g, default |-> d, vendors |-> l, ours |-> o]
Plain == {MenuOf(g, Hc!ENTRY_VENDOR, l, <<>>) : g \in BOOLEAN, l \in Stocks}
Installed(o) ==
    MenuOf(TRUE, IF o THEN Hc!Saved ELSE Hc!ENTRY_OPENHC, Hc!Vendors, <<Hc!menu_entry(o)>>)
Armed == {MenuOf(TRUE, Hc!Saved, l, Once(l)) : l \in Stocks}
Edited == {MenuOf(TRUE, Hc!ENTRY_VENDOR, l, Once(l)) : l \in Stocks}
Ours == {Installed(TRUE), Installed(FALSE)}
Kept == Plain \cup Armed \cup Edited
Known == Kept \cup Ours

Installs == {"kernel", "kernel_rest", "initrd", "initrd_rest", "backup", "menu", "default",
             "default_rest", "verify"}

(* A backup is made before our entry is first written, and never of it.     *)
HcTypes ==
    /\ menu \in Known \cup {Hc!Garbled} /\ dflt \in 1..4 \cup {Hc!None, Hc!Empty}
    /\ pre \in {<<>>} \cup {<<m>> : m \in Kept} /\ due \in Nat
    /\ menu \in Ours => pre # <<>>
    /\ hrunning \in {"off", "stock", "openhc", "restoring", "dead"} /\ hstep \in Hc!Steps
    /\ hstep # "none" => Hc!Up

(* What an operation is in the middle of.                                   *)
InMiddle ==
    /\ hstep \in Installs => op.once \in BOOLEAN
    /\ hstep \in {"menu", "default", "default_rest", "verify"} =>
          plan[2] = Installed(op.once) /\ pre # <<>>
    /\ hstep \in {"default", "default_rest", "verify"} => menu \in {plan[2], Hc!Garbled}
    /\ hstep = "default_rest" => op.once
    /\ hstep = "verify" /\ op.once => dflt = Hc!ENTRY_OPENHC
    /\ hstep = "save_rest" =>
          /\ menu \in Known /\ plan[1] = menu /\ plan[2] \in Armed
          /\ Hc!OnceEntry(menu) \in {2, 3} /\ due > 0
    /\ hstep \in {"arm", "confirm"} =>
          /\ plan[1] \in Known /\ (plan[1] \in Ours => pre # <<>>)
          /\ plan[2] \in Armed /\ Hc!Names /\ due > 0
    /\ hstep = "settle" => menu \in Kept

(* menu.lst never says `default saved` without the file it then reads, but   *)
(* while one is being written.                                              *)
FileForSaved ==
    menu # Hc!Garbled /\ menu.default = Hc!Saved
       /\ hstep \notin {"default", "default_rest", "save_rest"} => Hc!Names

(* A restore that runs, and one that is to boot, were each asked for; not yet*)
(* one whose menu was put back an instant ago.                              *)
Restoring == menu \in Armed /\ dflt = Len(menu.vendors)
AskedFor ==
    /\ hrunning = "restoring" \/ (Restoring /\ hstep # "settle") => due > 0
    /\ hrunning = "restoring" /\ Restoring => due > 1

(* As long as none of the three lapses has happened.                        *)
Fine == FileForSaved /\ AskedFor

HcInv == HcTypes /\ InMiddle /\ (lapses = {} => Fine)

-----------------------------------------------------------------------------
(* Short sequences, joined.                                                *)
LEMMA Tuples ==
  ASSUME NEW S, NEW s \in Seq(S)
  PROVE  /\ Len(s) = 3 => s = <<s[1], s[2], s[3]>>
         /\ Len(s) = 4 => s = <<s[1], s[2], s[3], s[4]>>
         /\ Len(s) = 5 => s = <<s[1], s[2], s[3], s[4], s[5]>>
<1>1. Len(s) = 3 => s = <<s[1], s[2], s[3]>>
  OBVIOUS
<1>2. Len(s) = 4 => s = <<s[1], s[2], s[3], s[4]>>
  OBVIOUS
<1>3. Len(s) = 5 => s = <<s[1], s[2], s[3], s[4], s[5]>>
  OBVIOUS
<1> QED BY <1>1, <1>2, <1>3

(* Two of them, joined.                                                    *)
LEMMA Joined3 ==
  ASSUME NEW a, NEW b, NEW c
  PROVE  /\ <<a, b>> \o <<>> = <<a, b>>
         /\ <<a, b, c>> \o <<>> = <<a, b, c>>
         /\ Append(<<a, b>>, c) = <<a, b, c>>
         /\ <<a, b>> \o <<c>> = <<a, b, c>>
<1> DEFINE S == {a, b, c}
<1>1. <<a, b>> \o <<>> = <<a, b>>
  OBVIOUS
<1>2. <<a, b, c>> \o <<>> = <<a, b, c>>
  OBVIOUS
<1>3. Append(<<a, b>>, c) = <<a, b, c>>
  <2> DEFINE u == Append(<<a, b>>, c)
  <2>1. u \in Seq(S) /\ Len(u) = 3
    OBVIOUS
  <2>2. u[1] = a /\ u[2] = b /\ u[3] = c
    OBVIOUS
  <2> HIDE DEF u
  <2>3. u = <<a, b, c>>
    BY <2>1, <2>2, Tuples
  <2> QED BY <2>3 DEF u
<1>4. <<a, b>> \o <<c>> = <<a, b, c>>
  <2> DEFINE u == <<a, b>> \o <<c>>
  <2>1. u \in Seq(S) /\ Len(u) = 3
    OBVIOUS
  <2>2. u[1] = a /\ u[2] = b /\ u[3] = c
    OBVIOUS
  <2> HIDE DEF u
  <2>3. u = <<a, b, c>>
    BY <2>1, <2>2, Tuples
  <2> QED BY <2>3 DEF u
<1> QED BY <1>1, <1>2, <1>3, <1>4

(* Two of them, four entries in all.                                       *)
LEMMA Joined4 ==
  ASSUME NEW a, NEW b, NEW c, NEW d
  PROVE  /\ <<a, b>> \o <<c, d>> = <<a, b, c, d>>
         /\ <<a, b, c>> \o <<d>> = <<a, b, c, d>>
<1> DEFINE S == {a, b, c, d}
<1>1. <<a, b>> \o <<c, d>> = <<a, b, c, d>>
  <2> DEFINE u == <<a, b>> \o <<c, d>>
  <2>1. u \in Seq(S) /\ Len(u) = 4
    OBVIOUS
  <2>2. u[1] = a /\ u[2] = b /\ u[3] = c /\ u[4] = d
    OBVIOUS
  <2> HIDE DEF u
  <2>3. u = <<a, b, c, d>>
    BY <2>1, <2>2, Tuples
  <2> QED BY <2>3 DEF u
<1>2. <<a, b, c>> \o <<d>> = <<a, b, c, d>>
  <2> DEFINE u == <<a, b, c>> \o <<d>>
  <2>1. u \in Seq(S) /\ Len(u) = 4
    OBVIOUS
  <2>2. u[1] = a /\ u[2] = b /\ u[3] = c /\ u[4] = d
    OBVIOUS
  <2> HIDE DEF u
  <2>3. u = <<a, b, c, d>>
    BY <2>1, <2>2, Tuples
  <2> QED BY <2>3 DEF u
<1> QED BY <1>1, <1>2

(* Two of them, five entries in all.                                       *)
LEMMA Joined5 ==
  ASSUME NEW a, NEW b, NEW c, NEW d, NEW e
  PROVE  <<a, b, c>> \o <<d, e>> = <<a, b, c, d, e>>
<1> DEFINE S == {a, b, c, d, e}
<1>1. <<a, b, c>> \o <<d, e>> = <<a, b, c, d, e>>
  <2> DEFINE u == <<a, b, c>> \o <<d, e>>
  <2>1. u \in Seq(S) /\ Len(u) = 5
    OBVIOUS
  <2>2. u[1] = a /\ u[2] = b /\ u[3] = c /\ u[4] = d /\ u[5] = e
    OBVIOUS
  <2> HIDE DEF u
  <2>3. u = <<a, b, c, d, e>>
    BY <2>1, <2>2, Tuples
  <2> QED BY <2>3 DEF u
<1> QED BY <1>1

(* The menus, entry by entry.                                              *)
Factory == Hc!Entry("factory", Hc!None)
Vendor == Hc!Entry("vendor", Hc!None)
Extra == Hc!Entry("extra", Hc!None)
OnceAt(n) == Hc!Entry("once", n)
First == Hc!Entry("firstboot", Hc!ENTRY_VENDOR)

(* An entry has the kind and the number it is made with.                   *)
LEMMA EntryFields ==
  ASSUME NEW k, NEW s
  PROVE  Hc!Entry(k, s).kind = k /\ Hc!Entry(k, s).save = s
BY DEF Hc!Entry

(* Control4's entries, one by one.                                         *)
LEMMA StockSeqs ==
  /\ Hc!Vendors = <<Factory, Vendor>>
  /\ Stocks = {<<Factory, Vendor>>, <<Factory, Vendor, Extra>>}
<1>1. Append(<<Factory, Vendor>>, Extra) = <<Factory, Vendor, Extra>>
  BY Joined3
<1>2. Hc!Vendors = <<Factory, Vendor>>
  BY DEF Hc!Vendors, Factory, Vendor
<1> QED BY <1>1, <1>2 DEF Stocks, Extra

(* Control4's menus, entry by entry.                                       *)
LEMMA PlainMenus ==
  ASSUME NEW m \in Plain
  PROVE  /\ m.guarded \in BOOLEAN /\ m.default = 1 /\ m.ours = <<>>
         /\ \/ m.vendors = <<Factory, Vendor>> /\ Hc!entries(m) = <<Factory, Vendor>>
            \/ /\ m.vendors = <<Factory, Vendor, Extra>>
               /\ Hc!entries(m) = <<Factory, Vendor, Extra>>
<1>1. PICK g \in BOOLEAN, l \in Stocks : m = MenuOf(g, 1, l, <<>>)
  BY DEF Plain, Hc!ENTRY_VENDOR
<1>2. m.guarded = g /\ m.default = 1 /\ m.vendors = l /\ m.ours = <<>>
  BY <1>1 DEF MenuOf
<1>3. Hc!entries(m) = l \o <<>>
  BY <1>2 DEF Hc!entries
<1> QED BY <1>2, <1>3, StockSeqs, Joined3

(* The menu with our entry.                                                *)
LEMMA InstalledMenu ==
  ASSUME NEW o \in BOOLEAN
  PROVE  LET m == Installed(o)
         IN  /\ m.guarded /\ m.default = IF o THEN Hc!Saved ELSE 2
             /\ m.vendors = <<Factory, Vendor>> /\ m.ours = <<Hc!menu_entry(o)>>
             /\ Hc!entries(m) = <<Factory, Vendor, Hc!menu_entry(o)>>
<1> DEFINE m == Installed(o)
<1>1. /\ m.guarded /\ m.default = IF o THEN Hc!Saved ELSE 2
      /\ m.vendors = Hc!Vendors /\ m.ours = <<Hc!menu_entry(o)>>
  BY DEF Installed, MenuOf, Hc!ENTRY_OPENHC
<1>2. Hc!entries(m) = <<Factory, Vendor>> \o <<Hc!menu_entry(o)>>
  BY <1>1, StockSeqs DEF Hc!entries
<1> QED BY <1>1, <1>2, StockSeqs, Joined3

(* The menus with the two entries of a restore, armed or left over.        *)
LEMMA OnceMenus ==
  ASSUME NEW m \in Armed \cup Edited
  PROVE  /\ m.guarded /\ m.default = (IF m \in Armed THEN Hc!Saved ELSE 1)
         /\ m \in Edited => m.default = 1
         /\ \/ /\ m.vendors = <<Factory, Vendor>>
               /\ Hc!entries(m) = <<Factory, Vendor, OnceAt(3), First>>
            \/ /\ m.vendors = <<Factory, Vendor, Extra>>
               /\ Hc!entries(m) = <<Factory, Vendor, Extra, OnceAt(4), First>>
<1>0. /\ m \in Armed => \E l \in Stocks : m = MenuOf(TRUE, Hc!Saved, l, Once(l))
      /\ m \in Edited => \E l \in Stocks : m = MenuOf(TRUE, 1, l, Once(l))
  BY DEF Armed, Edited, Hc!ENTRY_VENDOR
<1>1. PICK d \in {1, Hc!Saved}, l \in Stocks : m = MenuOf(TRUE, d, l, Once(l))
  BY <1>0
<1>2. m.guarded /\ m.default = d /\ m.vendors = l /\ m.ours = Once(l)
  BY <1>1 DEF MenuOf
<1>8. /\ m.default = (IF m \in Armed THEN Hc!Saved ELSE 1)
      /\ m \in Edited => m.default = 1
  BY <1>0 DEF MenuOf
<1>3. Hc!entries(m) = l \o <<OnceAt(Len(l) + 1), First>>
  BY <1>2 DEF Hc!entries, Once, OnceAt, First
<1>4. CASE l = <<Factory, Vendor>>
  <2>1. Len(l) + 1 = 3
    BY <1>4
  <2>2. Hc!entries(m) = <<Factory, Vendor>> \o <<OnceAt(3), First>>
    BY <1>3, <1>4, <2>1
  <2>3. Hc!entries(m) = <<Factory, Vendor, OnceAt(3), First>>
    BY <2>2, Joined4
  <2> QED BY <1>2, <1>4, <1>8, <2>3
<1>5. CASE l = <<Factory, Vendor, Extra>>
  <2>1. Len(l) + 1 = 4
    BY <1>5
  <2>2. Hc!entries(m) = <<Factory, Vendor, Extra>> \o <<OnceAt(4), First>>
    BY <1>3, <1>5, <2>1
  <2>3. Hc!entries(m) = <<Factory, Vendor, Extra, OnceAt(4), First>>
    BY <2>2, Joined5
  <2> QED BY <1>2, <1>5, <1>8, <2>3
<1> QED BY <1>4, <1>5, StockSeqs

(* An armed menu says `default saved`, and no other of them does.          *)
LEMMA ArmedMenus ==
  ASSUME NEW m \in Armed
  PROVE  /\ m.guarded /\ m.default = Hc!Saved /\ m \notin Edited
         /\ \/ /\ m.vendors = <<Factory, Vendor>>
               /\ Hc!entries(m) = <<Factory, Vendor, OnceAt(3), First>>
            \/ /\ m.vendors = <<Factory, Vendor, Extra>>
               /\ Hc!entries(m) = <<Factory, Vendor, Extra, OnceAt(4), First>>
BY OnceMenus DEF Hc!Saved

(* The entry of a number is the one at that place of the menu.             *)
LEMMA Choice ==
  ASSUME NEW i \in Nat, Len(Hc!entries(menu)) \in Nat
  PROVE  Hc!ChosenEntry(i) =
            IF i < Len(Hc!entries(menu)) THEN Hc!entries(menu)[i + 1] ELSE Vendor
<1>1. DOMAIN Hc!titles(menu) = 0..(Len(Hc!entries(menu)) - 1)
  BY DEF Hc!titles
<1> QED BY <1>1 DEF Hc!ChosenEntry, Vendor

(* What GRUB boots from a menu that is whole.  The first entry restores, and *)
(* the one-shot one; no entry names that one again.                         *)
LEMMA EntryKinds ==
  ASSUME menu \in Known, NEW i \in Nat
  PROVE  LET e == Hc!ChosenEntry(i)
         IN  /\ i = 0 => e.kind = "factory" /\ e.save = Hc!None
             /\ e.kind = "factory" => i = 0
             /\ e.kind = "once" =>
                   /\ menu \in Armed \cup Edited /\ i = Len(menu.vendors)
                   /\ e.save = i + 1 /\ e.save \in {3, 4}
             /\ e.save \in 1..4 \cup {Hc!None}
             /\ menu \in Armed /\ e.save # Hc!None => e.save # Len(menu.vendors)
             /\ menu \in Armed => Len(menu.vendors) \in {2, 3}
<1> DEFINE e == Hc!ChosenEntry(i)
<1>1. /\ Factory.kind = "factory" /\ Factory.save = Hc!None
      /\ Vendor.kind = "vendor" /\ Vendor.save = Hc!None
      /\ Extra.kind = "extra" /\ Extra.save = Hc!None
      /\ First.kind = "firstboot" /\ First.save = 1
      /\ \A n : OnceAt(n).kind = "once" /\ OnceAt(n).save = n
  BY EntryFields DEF Factory, Vendor, Extra, First, OnceAt, Hc!ENTRY_VENDOR
<1>2. \A o \in BOOLEAN :
         Hc!menu_entry(o).kind = "openhc" /\ Hc!menu_entry(o).save \in {1, Hc!None}
  BY EntryFields DEF Hc!menu_entry, Hc!ENTRY_VENDOR
<1>3. Hc!None = 9
  BY DEF Hc!None
<1>4. ASSUME NEW a, NEW b, Hc!entries(menu) = <<a, b>>
      PROVE  e = IF i = 0 THEN a ELSE IF i = 1 THEN b ELSE Vendor
  BY <1>4, Choice
<1>5. ASSUME NEW a, NEW b, NEW c, Hc!entries(menu) = <<a, b, c>>
      PROVE  e = IF i = 0 THEN a ELSE IF i = 1 THEN b ELSE IF i = 2 THEN c ELSE Vendor
  BY <1>5, Choice
<1>6. ASSUME NEW a, NEW b, NEW c, NEW d, Hc!entries(menu) = <<a, b, c, d>>
      PROVE  e = IF i = 0 THEN a ELSE IF i = 1 THEN b ELSE IF i = 2 THEN c
                 ELSE IF i = 3 THEN d ELSE Vendor
  BY <1>6, Choice
<1>7. ASSUME NEW a, NEW b, NEW c, NEW d, NEW f, Hc!entries(menu) = <<a, b, c, d, f>>
      PROVE  e = IF i = 0 THEN a ELSE IF i = 1 THEN b ELSE IF i = 2 THEN c
                 ELSE IF i = 3 THEN d ELSE IF i = 4 THEN f ELSE Vendor
  BY <1>7, Choice
<1> HIDE DEF e
<1>8. CASE menu \in Plain
  <2>1. menu \notin Armed
    BY <1>8, <1>3, PlainMenus, ArmedMenus DEF Hc!Saved
  <2>2. CASE Hc!entries(menu) = <<Factory, Vendor>>
    BY <1>1, <1>3, <1>4, <2>1, <2>2 DEF e
  <2>3. CASE Hc!entries(menu) = <<Factory, Vendor, Extra>>
    BY <1>1, <1>3, <1>5, <2>1, <2>3 DEF e
  <2> QED BY <1>8, <2>2, <2>3, PlainMenus
<1>9. ASSUME NEW o \in BOOLEAN, menu = Installed(o)
      PROVE  /\ menu \notin Armed /\ (i = 0 => e.kind = "factory" /\ e.save = Hc!None)
             /\ e.kind = "factory" => i = 0
             /\ e.kind # "once" /\ e.save \in {1, Hc!None}
  <2>1. Hc!entries(menu) = <<Factory, Vendor, Hc!menu_entry(o)>>
    BY <1>9, InstalledMenu
  <2>2. menu \notin Armed
    BY <2>1, ArmedMenus
  <2>3. e = IF i = 0 THEN Factory ELSE IF i = 1 THEN Vendor
            ELSE IF i = 2 THEN Hc!menu_entry(o) ELSE Vendor
    BY <1>5, <2>1
  <2> QED BY <1>1, <1>2, <1>3, <2>2, <2>3
<1>10. CASE menu \in Armed \cup Edited
  <2>1. CASE Hc!entries(menu) = <<Factory, Vendor, OnceAt(3), First>>
             /\ menu.vendors = <<Factory, Vendor>>
    <3>1. Len(menu.vendors) = 2
      BY <2>1
    <3>2. e = IF i = 0 THEN Factory ELSE IF i = 1 THEN Vendor ELSE IF i = 2 THEN OnceAt(3)
              ELSE IF i = 3 THEN First ELSE Vendor
      BY <1>6, <2>1
    <3> QED BY <1>1, <1>3, <1>10, <3>1, <3>2 DEF e
  <2>2. CASE Hc!entries(menu) = <<Factory, Vendor, Extra, OnceAt(4), First>>
             /\ menu.vendors = <<Factory, Vendor, Extra>>
    <3>1. Len(menu.vendors) = 3
      BY <2>2
    <3>2. e = IF i = 0 THEN Factory ELSE IF i = 1 THEN Vendor ELSE IF i = 2 THEN Extra
              ELSE IF i = 3 THEN OnceAt(4) ELSE IF i = 4 THEN First ELSE Vendor
      BY <1>7, <2>2
    <3> QED BY <1>1, <1>3, <1>10, <3>1, <3>2 DEF e
  <2> QED BY <1>10, <2>1, <2>2, OnceMenus
<1>11. CASE \E o \in BOOLEAN : menu = Installed(o)
  BY <1>3, <1>9, <1>11 DEF e
<1> QED BY <1>8, <1>10, <1>11 DEF Known, Kept, Ours

(* What is made of a menu, by its fields.                                  *)
LEMMA MenuFields ==
  ASSUME NEW g, NEW d, NEW l, NEW o
  PROVE  LET m == MenuOf(g, d, l, o)
         IN  /\ m.guarded = g /\ m.default = d /\ m.vendors = l /\ m.ours = o
             /\ \A b : Hc!InstallMenu(m, b) =
                   MenuOf(g, IF b THEN Hc!Saved ELSE Hc!ENTRY_OPENHC, l, <<Hc!menu_entry(b)>>)
             /\ Hc!factory_once_menu(m) = MenuOf(g, Hc!Saved, l, Once(l))
             /\ m # Hc!Garbled => Hc!EditedMenu(m) = MenuOf(g, 1, l, Hc!drop_entries(o))
<1> DEFINE m == MenuOf(g, d, l, o)
<1>1. m.guarded = g /\ m.default = d /\ m.vendors = l /\ m.ours = o
  BY DEF MenuOf
<1>2. ASSUME NEW x, NEW y
      PROVE  [m EXCEPT !.default = x, !.ours = y] = MenuOf(g, x, l, y)
  <2>1. m \in [guarded : {g}, default : {d, x}, vendors : {l}, ours : {o, y}]
    BY DEF MenuOf
  <2> HIDE DEF m
  <2> DEFINE n == [m EXCEPT !.default = x]
  <2>2. n = [guarded |-> m.guarded, default |-> x, vendors |-> m.vendors, ours |-> m.ours]
    BY <2>1
  <2>3. n \in [guarded : {g}, default : {x}, vendors : {l}, ours : {o, y}]
    BY <1>1, <2>2
  <2> HIDE DEF n
  <2>4. [n EXCEPT !.ours = y]
           = [guarded |-> n.guarded, default |-> n.default, vendors |-> n.vendors, ours |-> y]
    BY <2>3
  <2> QED BY <1>1, <2>2, <2>4 DEF MenuOf, n
<1> HIDE DEF m
<1>3. \A b : Hc!InstallMenu(m, b) =
         MenuOf(g, IF b THEN Hc!Saved ELSE Hc!ENTRY_OPENHC, l, <<Hc!menu_entry(b)>>)
  BY <1>2 DEF Hc!InstallMenu
<1>4. Hc!factory_once_menu(m) = MenuOf(g, Hc!Saved, l, Once(l))
  <2>1. Hc!factory_once_menu(m) = [m EXCEPT !.default = Hc!Saved, !.ours = Once(l)]
    BY <1>1 DEF Hc!factory_once_menu, Once, Hc!OnceEntry
  <2> QED BY <1>2, <2>1
<1>5. m # Hc!Garbled => Hc!EditedMenu(m) = MenuOf(g, 1, l, Hc!drop_entries(o))
  <2>1. m # Hc!Garbled =>
           Hc!EditedMenu(m) = [m EXCEPT !.default = 1, !.ours = Hc!drop_entries(o)]
    BY <1>1 DEF Hc!EditedMenu, Hc!ENTRY_VENDOR
  <2> QED BY <1>2, <2>1
<1> QED BY <1>1, <1>3, <1>4, <1>5 DEF m

(* Known menus are records of what they hold.                              *)
LEMMA KnownMenus ==
  ASSUME NEW m \in Known
  PROVE  /\ \E g \in BOOLEAN, d \in {1, 2, Hc!Saved}, l \in Stocks :
               \E o : m = MenuOf(g, d, l, o)
         /\ m.vendors \in Stocks /\ Len(m.vendors) \in {2, 3}
         /\ m # Hc!Garbled
         /\ m \in Plain \cup Edited <=> m.default = 1
         /\ m \in Armed => m.default = Hc!Saved
<1>1. \A l \in Stocks : Len(l) \in {2, 3} /\ l # <<>>
  <2>1. Len(<<Factory, Vendor>>) = 2 /\ Len(<<Factory, Vendor, Extra>>) = 3
    OBVIOUS
  <2>2. <<Factory, Vendor>> # <<>> /\ <<Factory, Vendor, Extra>> # <<>>
    OBVIOUS
  <2> QED BY <2>1, <2>2, StockSeqs
<1>2. Hc!Garbled.vendors = <<>>
  BY DEF Hc!Garbled
<1>3. \E g \in BOOLEAN, d \in {1, 2, Hc!Saved}, l \in Stocks : \E o : m = MenuOf(g, d, l, o)
  <2>1. CASE m \in Plain
    BY <2>1 DEF Plain, Hc!ENTRY_VENDOR
  <2>2. CASE \E o \in BOOLEAN : m = Installed(o)
    <3>1. PICK o \in BOOLEAN : m = Installed(o)
      BY <2>2
    <3>2. Hc!Vendors \in Stocks /\ (IF o THEN Hc!Saved ELSE Hc!ENTRY_OPENHC) \in {2, Hc!Saved}
      BY DEF Stocks, Hc!ENTRY_OPENHC
    <3> QED BY <3>1, <3>2 DEF Installed
  <2>3. CASE m \in Armed
    BY <2>3 DEF Armed
  <2>4. CASE m \in Edited
    BY <2>4 DEF Edited, Hc!ENTRY_VENDOR
  <2> QED BY <2>1, <2>2, <2>3, <2>4 DEF Known, Kept, Ours
<1>4. m.vendors \in Stocks
  BY <1>3, MenuFields
<1>5. m \in Plain \cup Edited => m.default = 1
  BY PlainMenus, OnceMenus
<1>6. m \notin Plain \cup Edited => m.default \in {2, Hc!Saved}
  BY InstalledMenu, ArmedMenus DEF Known, Kept, Ours
<1>7. m \in Armed => m.default = Hc!Saved
  BY ArmedMenus
<1> QED BY <1>1, <1>2, <1>3, <1>4, <1>5, <1>6, <1>7 DEF Hc!Saved

(* What install_grub and a restore write is known, and only of that menu    *)
(* that they accept.                                                       *)
LEMMA GarbledRefused == ~Hc!InstallAccepts(Hc!Garbled) /\ ~Hc!OnceAccepts(Hc!Garbled)
BY DEF Hc!InstallAccepts, Hc!OnceAccepts, Hc!Garbled

(* install_grub's menu is ours: an entry of Control4's in its place is refused.*)
LEMMA InstallKnown ==
  ASSUME NEW m \in Known, Hc!InstallAccepts(m), NEW o \in BOOLEAN
  PROVE  Hc!InstallMenu(m, o) = Installed(o)
<1>0. PICK g \in BOOLEAN, d \in {1, 2, Hc!Saved}, l \in Stocks : \E u : m = MenuOf(g, d, l, u)
  BY KnownMenus
<1>1. PICK u : m = MenuOf(g, d, l, u)
  BY <1>0
<1>2. g
  BY <1>1, MenuFields DEF Hc!InstallAccepts
<1>3. \A b : Hc!InstallMenu(m, b) =
         MenuOf(g, IF b THEN Hc!Saved ELSE Hc!ENTRY_OPENHC, l, <<Hc!menu_entry(b)>>)
  BY <1>1, MenuFields
<1>4. l # <<Factory, Vendor, Extra>>
  <2> SUFFICES ASSUME l = <<Factory, Vendor, Extra>>
               PROVE  FALSE
    OBVIOUS
  <2> DEFINE n == Hc!InstallMenu(m, FALSE)
  <2>0. n = MenuOf(g, Hc!ENTRY_OPENHC, l, <<Hc!menu_entry(FALSE)>>)
    BY <1>3
  <2> HIDE DEF n
  <2>1. n.vendors = <<Factory, Vendor, Extra>> /\ n.ours = <<Hc!menu_entry(FALSE)>>
    BY <2>0 DEF MenuOf
  <2>2. Hc!entries(n) = <<Factory, Vendor, Extra>> \o <<Hc!menu_entry(FALSE)>>
    BY <2>1 DEF Hc!entries
  <2>3. Hc!entries(n) = <<Factory, Vendor, Extra, Hc!menu_entry(FALSE)>>
    BY <2>2, Joined4
  <2>4. ~(2 \in DOMAIN Hc!titles(n) /\ Hc!titles(n)[2] = "openhc")
    BY <2>3, EntryFields DEF Hc!titles, Extra
  <2> QED BY <2>4 DEF Hc!InstallAccepts, Hc!ENTRY_OPENHC, n
<1> QED BY <1>2, <1>3, <1>4, StockSeqs DEF Installed

(* A restore arms the menu it found, whatever entries Control4 has in it.  *)
LEMMA OnceKnown ==
  ASSUME NEW m \in Known, Hc!OnceAccepts(m)
  PROVE  Hc!factory_once_menu(m) \in Armed /\ Hc!OnceEntry(m) \in {2, 3}
<1>0. PICK g \in BOOLEAN, d \in {1, 2, Hc!Saved}, l \in Stocks : \E u : m = MenuOf(g, d, l, u)
  BY KnownMenus
<1>1. PICK u : m = MenuOf(g, d, l, u)
  BY <1>0
<1>2. g
  BY <1>1, MenuFields DEF Hc!OnceAccepts
<1>3. Hc!factory_once_menu(m) = MenuOf(g, Hc!Saved, l, Once(l))
  BY <1>1, MenuFields
<1> QED BY <1>2, <1>3, KnownMenus DEF Armed, Hc!OnceEntry

(* boot_installed refuses a menu with a restore's entries: the second is    *)
(* not ours.                                                               *)
LEMMA ArmedNotOurs ==
  ASSUME NEW m \in Armed \cup Edited
  PROVE  Hc!titles(m)[2] # "openhc"
<1>1. Hc!entries(m)[3] \in {OnceAt(3), Extra} /\ Len(Hc!entries(m)) \in {4, 5}
  BY OnceMenus
<1>2. 2 \in 0..(Len(Hc!entries(m)) - 1)
  BY <1>1
<1>3. Hc!titles(m)[2] = Hc!entries(m)[3].kind
  BY <1>2 DEF Hc!titles
<1> QED BY <1>1, <1>3, EntryFields DEF OnceAt, Extra

(* What uninstall's editing leaves of a menu it may find without a backup.   *)
LEMMA EditedKnown ==
  ASSUME NEW m \in Kept
  PROVE  Hc!EditedMenu(m) \in Plain \cup Edited
<1>1. m # Hc!Garbled
  BY KnownMenus DEF Known
<1>2. ASSUME NEW g, NEW d, NEW l, NEW o, m = MenuOf(g, d, l, o)
      PROVE  Hc!EditedMenu(m) = MenuOf(g, 1, l, Hc!drop_entries(o))
  BY <1>1, <1>2, MenuFields
<1>3. Hc!drop_entries(<<>>) = <<>>
  BY DEF Hc!drop_entries
<1>4. \A l : Hc!drop_entries(Once(l)) = Once(l)
  BY EntryFields DEF Hc!drop_entries, Once
<1>5. CASE m \in Plain
  <2>1. PICK g \in BOOLEAN, l \in Stocks : m = MenuOf(g, 1, l, <<>>)
    BY <1>5 DEF Plain, Hc!ENTRY_VENDOR
  <2>2. Hc!EditedMenu(m) = MenuOf(g, 1, l, <<>>)
    BY <1>2, <1>3, <2>1
  <2> QED BY <2>2 DEF Plain, Hc!ENTRY_VENDOR
<1>6. CASE m \in Armed \cup Edited
  <2>0. \E d, l : l \in Stocks /\ m = MenuOf(TRUE, d, l, Once(l))
    BY <1>6 DEF Armed, Edited
  <2>1. PICK d, l : l \in Stocks /\ m = MenuOf(TRUE, d, l, Once(l))
    BY <2>0
  <2>2. Hc!EditedMenu(m) = MenuOf(TRUE, 1, l, Once(l))
    BY <1>2, <1>4, <2>1
  <2> QED BY <2>1, <2>2 DEF Edited, Hc!ENTRY_VENDOR
<1> QED BY <1>5, <1>6 DEF Kept

(* The kinds of menu, told apart by their default.                         *)
LEMMA Kinds ==
  /\ \A m \in Kept : m \in Known /\ m \notin Ours /\ m # Hc!Garbled
  /\ \A m \in Known \ Kept : m \in Ours
  /\ \A m \in Plain \cup Edited : m \in Kept /\ m \notin Armed /\ m.default = 1
  /\ \A m \in Armed : m \in Kept /\ m.default = Hc!Saved
  /\ \A o \in BOOLEAN :
        /\ Installed(o) \in Ours /\ Installed(o) \in Known /\ Installed(o) \notin Armed
        /\ Installed(o) # Hc!Garbled /\ (Installed(o).default = Hc!Saved <=> o)
  /\ Hc!Garbled \notin Known /\ Hc!Garbled \notin Armed /\ Hc!Garbled \notin Ours
  /\ Hc!Garbled \notin Kept
<1>1. \A m \in Known : m # Hc!Garbled
  BY KnownMenus
<1>2. \A m \in Plain \cup Edited : m \in Known /\ m.default = 1
  <2> SUFFICES ASSUME NEW m \in Plain \cup Edited
               PROVE  m \in Known /\ m.default = 1
    OBVIOUS
  <2>1. m \in Known
    BY DEF Known, Kept
  <2> QED BY <2>1, KnownMenus
<1>3. \A m \in Armed : m \in Kept /\ m.default = Hc!Saved
  BY ArmedMenus DEF Kept
<1>4. \A m \in Plain \cup Edited : m \in Kept /\ m \notin Armed /\ m.default = 1
  BY <1>2, <1>3 DEF Kept, Hc!Saved
<1>5. ASSUME NEW o \in BOOLEAN
      PROVE  /\ Installed(o) \in Ours /\ Installed(o) \in Known /\ Installed(o) \notin Armed
             /\ Installed(o) # Hc!Garbled /\ (Installed(o).default = Hc!Saved <=> o)
             /\ Installed(o) \notin Kept
  <2>1. Installed(o) \in Ours
    BY DEF Ours
  <2>2. Installed(o) \in Known
    BY <2>1 DEF Known
  <2>3. /\ Hc!entries(Installed(o)) = <<Factory, Vendor, Hc!menu_entry(o)>>
        /\ Installed(o).default = IF o THEN Hc!Saved ELSE 2
    BY InstalledMenu
  <2>4. Installed(o) \notin Armed
    BY <2>3, ArmedMenus
  <2>5. Installed(o).default # 1
    BY <2>3 DEF Hc!Saved
  <2>6. Installed(o).default = Hc!Saved <=> o
    BY <2>3 DEF Hc!Saved
  <2>7. Installed(o) \notin Kept
    BY <1>2, <2>4, <2>5 DEF Kept
  <2> QED BY <1>1, <2>1, <2>2, <2>4, <2>6, <2>7
<1>6. \A m \in Kept : m \in Known /\ m \notin Ours
  <2>1. \A m \in Ours : \E o \in BOOLEAN : m = Installed(o)
    BY DEF Ours
  <2> QED BY <1>5, <2>1 DEF Known
<1>7. \A m \in Known \ Kept : m \in Ours
  BY DEF Known
<1>8. Ours \subseteq Known /\ Armed \subseteq Known /\ Kept \subseteq Known
  BY DEF Known, Kept
<1> QED BY <1>1, <1>3, <1>4, <1>5, <1>6, <1>7, <1>8

-----------------------------------------------------------------------------
(* The steps.  Most leave the boot loader alone.                           *)
LEMMA Quiet ==
  ASSUME HcInv, UNCHANGED <<menu, dflt, pre, due, lapses>>,
         hrunning' \in {hrunning, "off", "openhc", "dead"},
         hstep \notin {"default", "default_rest", "save_rest", "settle"},
         hstep' \in Hc!Steps \ {"menu", "default", "default_rest", "verify", "save_rest",
                                "arm", "confirm", "settle"},
         hstep' \in Installs => op'.once \in BOOLEAN,
         hstep' # "none" => Hc!Up'
  PROVE  HcInv'
<1>1. HcTypes'
  BY DEF HcInv, HcTypes, Hc!Up
<1>2. InMiddle'
  BY DEF InMiddle
<1>3. lapses' = {} => FileForSaved'
  BY DEF HcInv, Fine, FileForSaved, Hc!Names
<1>4. lapses' = {} => AskedFor'
  BY DEF HcInv, Fine, AskedFor, Restoring
<1> QED BY <1>1, <1>2, <1>3, <1>4 DEF HcInv, Fine

(* The steps that do leave it alone.                                       *)
LEMMA QuietSteps ==
  ASSUME HcInv, HcConstants,
         \/ Hc!stage_and_kexec \/ Hc!factory_restore \/ Hc!stock \/ Hc!uninstall
         \/ \E r \in Hc!Builds : Hc!update(r) \/ \E o \in Modes : Hc!install_grub(o, r)
         \/ Hc!PutImages \/ Hc!RefuseRestore \/ Hc!RemoveImages
         \/ Hc!vendor_tmp \/ Hc!SwapImages \/ Hc!NoMenu \/ Hc!Reboot
  PROVE  HcInv'
<1>1. /\ hstep \in Hc!Steps /\ (hstep # "none" => Hc!Up)
      /\ hrunning \in {"off", "stock", "openhc", "restoring", "dead"}
      /\ hstep \in Installs => op.once \in BOOLEAN
  BY DEF HcInv, HcTypes, InMiddle
<1>2. ASSUME NEW o, NEW s, Hc!Begin(o, s), s \in {"kernel", "save", "back", "swap_kernel"},
             s = "kernel" => o.once \in BOOLEAN
      PROVE  HcInv'
  <2>1. /\ UNCHANGED <<menu, dflt, pre, due, lapses>> /\ hrunning' = hrunning
        /\ hstep = "none" /\ op' = o /\ hstep' = s /\ Hc!Up
    BY <1>2 DEF Hc!Begin, Hc!bootloader
  <2> QED BY <1>2, <2>1, Quiet DEF Hc!Steps, Installs, Hc!Up
<1>3. CASE Hc!factory_restore \/ Hc!stock \/ Hc!uninstall
  BY <1>2, <1>3 DEF Hc!factory_restore, Hc!stock, Hc!uninstall
<1>4. ASSUME NEW r, Hc!update(r)
      PROVE  HcInv'
  BY <1>2, <1>4 DEF Hc!update
<1>5. ASSUME NEW r, NEW o \in Modes, Hc!install_grub(o, r)
      PROVE  HcInv'
  <2>1. o \in BOOLEAN
    BY HcConstants
  <2> QED BY <1>2, <1>5, <2>1 DEF Hc!install_grub
<1>6. CASE Hc!stage_and_kexec \/ Hc!Reboot
  BY <1>1, <1>6, Quiet
     DEF Hc!stage_and_kexec, Hc!Reboot, Hc!bootloader, Hc!work, Hc!Steps, Installs
<1>7. CASE Hc!PutImages
  BY <1>1, <1>7, Quiet DEF Hc!PutImages, Hc!bootloader, Hc!Go, Hc!Steps, Installs, Hc!Up
<1>8. CASE Hc!RefuseRestore
  BY <1>1, <1>8, Quiet DEF Hc!RefuseRestore, Hc!bootloader, Hc!Finish, Hc!Steps, Installs
<1>9. CASE Hc!RemoveImages \/ Hc!vendor_tmp
  BY <1>1, <1>9, Quiet DEF Hc!RemoveImages, Hc!vendor_tmp, Hc!bootloader, Hc!Go, Hc!Finish,
     Hc!Steps, Installs, Hc!Up
<1>10. CASE Hc!SwapImages
  BY <1>1, <1>10, Quiet
     DEF Hc!SwapImages, Hc!bootloader, Hc!Go, Hc!Finish, Hc!Steps, Installs, Hc!Up
<1>11. CASE Hc!NoMenu
  BY <1>1, <1>11, Quiet DEF Hc!NoMenu, Hc!bootloader, Hc!work, Hc!Steps, Installs, Hc!Up
<1> QED BY <1>3, <1>4, <1>5, <1>6, <1>7, <1>8, <1>9, <1>10, <1>11

(* A cut ends an operation, and is a lapse where the file menu.lst reads is *)
(* not there, or not yet what it should be.                                 *)
LEMMA CutSteps ==
  ASSUME HcInv, Hc!Cut
  PROVE  HcInv'
<1>1. /\ hstep # "none" /\ hstep' = "none" /\ UNCHANGED <<menu, dflt, pre, due>>
      /\ hrunning' \in {hrunning, "off"} /\ lapses' = lapses \cup Hc!CutLapse
  BY DEF Hc!Cut, Hc!Finish, Hc!bootloader
<1>2. Hc!Up /\ hrunning' # "restoring"
  BY <1>1 DEF HcInv, HcTypes, Hc!Up
<1>3. HcTypes'
  BY <1>1 DEF HcInv, HcTypes, Hc!Steps
<1>4. InMiddle'
  BY <1>1 DEF InMiddle, Installs
<1>5. ASSUME lapses' = {}
      PROVE  FileForSaved' /\ AskedFor'
  <2>1. Fine /\ Hc!CutLapse = {}
    BY <1>1, <1>5 DEF HcInv
  <2>2. /\ hstep \in {"default", "default_rest"} => ~op.once
        /\ hstep \in {"save_rest", "settle"} => menu.default # Hc!Saved
    BY <2>1 DEF Hc!CutLapse
  <2>3. CASE hstep \in {"default", "default_rest"}
    <3>1. ~op.once /\ op.once \in BOOLEAN /\ menu \in {Installed(op.once), Hc!Garbled}
      BY <2>2, <2>3 DEF HcInv, InMiddle, Installs
    <3>2. menu # Hc!Garbled => menu.default # Hc!Saved
      BY <3>1, Kinds
    <3>3. menu \notin Armed
      BY <3>1, Kinds
    <3> QED BY <1>1, <1>2, <3>2, <3>3 DEF FileForSaved, AskedFor, Restoring
  <2>4. CASE hstep \in {"save_rest", "settle"}
    <3>1. menu.default # Hc!Saved /\ menu \notin Armed
      BY <2>2, <2>4, Kinds
    <3> QED BY <1>1, <1>2, <3>1 DEF FileForSaved, AskedFor, Restoring
  <2>5. CASE hstep \notin {"default", "default_rest", "save_rest", "settle"}
    BY <1>1, <1>2, <2>1, <2>5 DEF Fine, FileForSaved, AskedFor, Restoring, Hc!Names
  <2> QED BY <2>3, <2>4, <2>5
<1> QED BY <1>3, <1>4, <1>5 DEF HcInv, Fine

(* install_grub, from the backup to the check of the menu it wrote.        *)
LEMMA InstallSteps ==
  ASSUME HcInv,
         \/ Hc!RefuseMenu \/ Hc!BackUpMenu \/ Hc!WriteMenu \/ Hc!WriteDefault
         \/ Hc!VerifyMenu
  PROVE  HcInv'
<1>1. /\ menu \in Known \cup {Hc!Garbled} /\ dflt \in 1..4 \cup {Hc!None, Hc!Empty}
      /\ due \in Nat /\ pre \in {<<>>} \cup {<<m>> : m \in Kept}
      /\ menu \in Ours => pre # <<>>
      /\ hstep \in Hc!Steps /\ (hstep # "none" => Hc!Up)
      /\ hrunning \in {"off", "stock", "openhc", "restoring", "dead"}
      /\ hstep \in Installs => op.once \in BOOLEAN
  BY DEF HcInv, HcTypes, InMiddle
<1>2. /\ Hc!None = 9 /\ Hc!Saved = 9 /\ Hc!Empty = 8
      /\ (hstep # "none" => hrunning # "restoring")
  BY <1>1 DEF Hc!None, Hc!Saved, Hc!Empty, Hc!Up
<1>3. ASSUME menu # Hc!Garbled, pre' = Hc!Backup
      PROVE  pre' \in {<<>>} \cup {<<m>> : m \in Kept} /\ pre' # <<>>
  BY <1>1, <1>3, Kinds DEF Hc!Backup
<1>4. CASE Hc!RefuseMenu
  <2>1. /\ hstep = "backup" /\ hstep' = "none"
        /\ UNCHANGED <<menu, dflt, due, lapses, hrunning>>
        /\ pre' = IF menu.guarded THEN Hc!Backup ELSE pre
    BY <1>4 DEF Hc!RefuseMenu, Hc!Finish
  <2>2. pre' \in {<<>>} \cup {<<m>> : m \in Kept} /\ (menu \in Ours => pre' # <<>>)
    <3>1. ~Hc!Garbled.guarded
      BY DEF Hc!Garbled
    <3> QED BY <1>1, <1>3, <2>1, <3>1
  <2>3. HcTypes' /\ InMiddle'
    BY <1>1, <2>1, <2>2 DEF HcTypes, InMiddle, Installs, Hc!Steps, Hc!Up
  <2>4. ASSUME lapses' = {}
        PROVE  FileForSaved' /\ AskedFor'
    BY <1>2, <2>1, <2>4 DEF HcInv, Fine, FileForSaved, AskedFor, Restoring, Hc!Names
  <2> QED BY <2>3, <2>4 DEF HcInv, Fine
<1>5. CASE Hc!BackUpMenu
  <2>1. /\ hstep = "backup" /\ hstep' = "menu"
        /\ UNCHANGED <<menu, dflt, due, lapses, hrunning, op>> /\ pre' = Hc!Backup
        /\ Hc!InstallAccepts(menu) /\ plan' = <<menu, Hc!InstallMenu(menu, op.once)>>
    BY <1>5 DEF Hc!BackUpMenu, Hc!Go
  <2>2. op.once \in BOOLEAN /\ menu # Hc!Garbled
    BY <1>1, <2>1, GarbledRefused DEF Installs
  <2>3. plan'[2] = Installed(op'.once)
    BY <1>1, <2>1, <2>2, InstallKnown
  <2>4. HcTypes' /\ InMiddle'
    BY <1>1, <1>3, <2>1, <2>2, <2>3 DEF HcTypes, InMiddle, Hc!Steps, Hc!Up
  <2>5. ASSUME lapses' = {}
        PROVE  FileForSaved' /\ AskedFor'
    BY <1>2, <2>1, <2>5 DEF HcInv, Fine, FileForSaved, AskedFor, Restoring, Hc!Names
  <2> QED BY <2>4, <2>5 DEF HcInv, Fine
<1>6. CASE Hc!WriteMenu
  <2>1. /\ hstep = "menu" /\ hstep' = "default"
        /\ UNCHANGED <<dflt, pre, due, lapses, hrunning, op, plan>>
        /\ menu' \in {plan[2], Hc!Garbled}
    BY <1>6 DEF Hc!WriteMenu, Hc!Go
  <2>2. op.once \in BOOLEAN /\ plan[2] = Installed(op.once) /\ pre # <<>>
    BY <1>1, <2>1 DEF HcInv, InMiddle, Installs
  <2>3. menu' \in Known \cup {Hc!Garbled} /\ menu' \notin Armed
    BY <2>1, <2>2, Kinds
  <2>4. HcTypes'
    BY <1>1, <2>1, <2>2, <2>3 DEF HcTypes, Hc!Steps, Hc!Up
  <2>5. InMiddle'
    BY <1>1, <2>1, <2>2 DEF InMiddle
  <2>6. FileForSaved' /\ AskedFor'
    BY <1>2, <2>1, <2>3 DEF FileForSaved, AskedFor, Restoring
  <2> QED BY <2>4, <2>5, <2>6 DEF HcInv, Fine
<1>7. CASE Hc!WriteDefault
  <2>1. /\ hstep \in {"default", "default_rest"} /\ hstep' \in {"default_rest", "verify"}
        /\ UNCHANGED <<menu, pre, due, lapses, hrunning, op, plan>>
        /\ dflt' \in {2, Hc!None, Hc!Empty}
        /\ hstep' = "default_rest" => op.once
        /\ hstep' = "verify" => dflt' = IF op.once THEN 2 ELSE Hc!None
    BY <1>7 DEF Hc!WriteDefault, Hc!Go, Hc!ENTRY_OPENHC, HcInv, InMiddle
  <2>2. /\ op.once \in BOOLEAN /\ plan[2] = Installed(op.once) /\ pre # <<>>
        /\ menu \in {plan[2], Hc!Garbled}
    BY <1>1, <2>1 DEF HcInv, InMiddle, Installs
  <2>3. menu \notin Armed /\ (menu # Hc!Garbled => (menu.default = Hc!Saved <=> op.once))
    BY <2>2, Kinds
  <2>4. HcTypes'
    BY <1>1, <1>2, <2>1, <2>2 DEF HcTypes, Hc!Steps, Hc!Up
  <2>5. InMiddle'
    BY <1>1, <2>1, <2>2 DEF InMiddle, Hc!ENTRY_OPENHC
  <2>6. FileForSaved' /\ AskedFor'
    BY <1>2, <2>1, <2>3 DEF FileForSaved, AskedFor, Restoring, Hc!Names
  <2> QED BY <2>4, <2>5, <2>6 DEF HcInv, Fine
<1>8. CASE Hc!VerifyMenu
  <2>1. /\ hstep = "verify" /\ hstep' = "none" /\ UNCHANGED <<dflt, pre, due, hrunning>>
        /\ menu' = IF menu = plan[2] THEN menu ELSE pre[1]
        /\ lapses' = IF menu # plan[2] /\ pre[1].default = Hc!Saved
                     THEN lapses \cup {"backup"} ELSE lapses
    BY <1>8 DEF Hc!VerifyMenu, Hc!Finish
  <2>2. /\ op.once \in BOOLEAN /\ plan[2] = Installed(op.once) /\ pre # <<>>
        /\ op.once => dflt = 2
    BY <1>1, <2>1 DEF HcInv, InMiddle, Installs, Hc!ENTRY_OPENHC
  <2>3. pre[1] \in Kept
    BY <1>1, <2>2
  <2>4. menu' \in Known /\ menu' # Hc!Garbled
    BY <2>1, <2>2, <2>3, Kinds
  <2>5. HcTypes' /\ InMiddle'
    BY <1>1, <2>1, <2>2, <2>4 DEF HcTypes, InMiddle, Hc!Steps, Hc!Up, Installs
  <2>6. ASSUME lapses' = {}
        PROVE  FileForSaved' /\ AskedFor'
    <3>1. menu' \notin Armed /\ (menu'.default = Hc!Saved => op.once)
      BY <2>1, <2>2, <2>3, <2>6, Kinds
    <3> QED BY <1>2, <2>1, <2>2, <3>1 DEF FileForSaved, AskedFor, Restoring, Hc!Names
  <2> QED BY <2>5, <2>6 DEF HcInv, Fine
<1> QED BY <1>4, <1>5, <1>6, <1>7, <1>8

(* A factory restore being armed.                                          *)
LEMMA RestoreSteps ==
  ASSUME HcInv, Hc!SaveEntry \/ Hc!SaveRest \/ Hc!Arm \/ Hc!Confirm
  PROVE  HcInv'
<1>1. /\ menu \in Known \cup {Hc!Garbled} /\ dflt \in 1..4 \cup {Hc!None, Hc!Empty}
      /\ due \in Nat /\ pre \in {<<>>} \cup {<<m>> : m \in Kept}
      /\ menu \in Ours => pre # <<>>
      /\ hstep \in Hc!Steps /\ (hstep # "none" => Hc!Up)
      /\ hrunning \in {"off", "stock", "openhc", "restoring", "dead"}
  BY DEF HcInv, HcTypes
<1>2. /\ Hc!None = 9 /\ Hc!Saved = 9 /\ Hc!Empty = 8
      /\ (hstep # "none" => hrunning # "restoring")
  BY <1>1 DEF Hc!None, Hc!Saved, Hc!Empty, Hc!Up
<1>3. CASE Hc!SaveEntry
  <2>1. /\ hstep = "save" /\ UNCHANGED <<menu, pre, hrunning, lapses>>
        /\ Hc!OnceAccepts(menu) /\ due' = due + 1
        /\ plan' = <<menu, Hc!factory_once_menu(menu)>>
        /\ \/ hstep' = "arm" /\ dflt' = Hc!OnceEntry(menu)
           \/ hstep' = "save_rest" /\ dflt' = Hc!Empty
    BY <1>3 DEF Hc!SaveEntry, Hc!Go
  <2>2. /\ menu \in Known /\ Hc!OnceEntry(menu) \in {2, 3} /\ plan'[1] = menu
        /\ plan'[2] \in Armed
    BY <1>1, <2>1, OnceKnown, GarbledRefused
  <2>3. HcTypes'
    BY <1>1, <2>1, <2>2 DEF HcTypes, Hc!Steps, Hc!Up
  <2>4. InMiddle'
    <3>1. hstep' = "arm" => Hc!Names'
      BY <1>2, <2>1, <2>2 DEF Hc!Names
    <3>2. Hc!OnceEntry(menu)' = Hc!OnceEntry(menu)
      BY <2>1 DEF Hc!OnceEntry
    <3> QED BY <1>1, <2>1, <2>2, <3>1, <3>2 DEF InMiddle, Installs
  <2>5. FileForSaved' /\ AskedFor'
    BY <1>1, <1>2, <2>1, <2>2 DEF FileForSaved, AskedFor, Restoring, Hc!Names
  <2> QED BY <2>3, <2>4, <2>5 DEF HcInv, Fine
<1>4. CASE Hc!SaveRest
  <2>1. /\ hstep = "save_rest" /\ hstep' = "arm" /\ dflt' = Hc!OnceEntry(menu)
        /\ UNCHANGED <<menu, pre, hrunning, lapses, due, plan>>
    BY <1>4 DEF Hc!SaveRest, Hc!Go
  <2>2. /\ menu \in Known /\ plan[1] = menu /\ plan[2] \in Armed
        /\ Hc!OnceEntry(menu) \in {2, 3} /\ due > 0
    BY <2>1 DEF HcInv, InMiddle
  <2>3. HcTypes'
    BY <1>1, <2>1, <2>2 DEF HcTypes, Hc!Steps, Hc!Up
  <2>4. Hc!Names'
    BY <1>2, <2>1, <2>2 DEF Hc!Names
  <2>5. InMiddle'
    BY <1>1, <2>1, <2>2, <2>4 DEF InMiddle, Installs
  <2>6. FileForSaved' /\ AskedFor'
    BY <1>2, <2>1, <2>2, <2>4 DEF FileForSaved, AskedFor
  <2> QED BY <2>3, <2>5, <2>6 DEF HcInv, Fine
<1>5. CASE Hc!Arm
  <2>1. /\ hstep = "arm" /\ hstep' = "confirm"
        /\ UNCHANGED <<dflt, pre, due, lapses, hrunning, plan>>
        /\ menu' \in {plan[2], Hc!Garbled}
    BY <1>5 DEF Hc!Arm, Hc!Go
  <2>2. /\ plan[1] \in Known /\ (plan[1] \in Ours => pre # <<>>)
        /\ plan[2] \in Armed /\ Hc!Names /\ due > 0
    BY <2>1 DEF HcInv, InMiddle
  <2>3. menu' \in Known \cup {Hc!Garbled} /\ menu' \notin Ours
    BY <2>1, <2>2, Kinds
  <2>4. HcTypes'
    BY <1>1, <2>1, <2>3 DEF HcTypes, Hc!Steps, Hc!Up
  <2>5. Hc!Names'
    BY <2>1, <2>2 DEF Hc!Names
  <2>6. InMiddle'
    BY <2>1, <2>2, <2>5 DEF InMiddle, Installs
  <2>7. FileForSaved' /\ AskedFor'
    BY <1>2, <2>1, <2>2, <2>5 DEF FileForSaved, AskedFor
  <2> QED BY <2>4, <2>6, <2>7 DEF HcInv, Fine
<1>6. CASE Hc!Confirm
  <2>1. /\ hstep = "confirm" /\ hstep' = "none" /\ UNCHANGED <<dflt, pre, due, lapses>>
        /\ menu' \in {plan[1], plan[2]} /\ hrunning' \in {"off", hrunning}
    BY <1>6 DEF Hc!Confirm, Hc!Finish
  <2>2. /\ plan[1] \in Known /\ (plan[1] \in Ours => pre # <<>>)
        /\ plan[2] \in Armed /\ Hc!Names /\ due > 0
    BY <2>1 DEF HcInv, InMiddle
  <2>3. menu' \in Known /\ (menu' \in Ours => pre # <<>>)
    BY <2>1, <2>2, Kinds
  <2>4. HcTypes' /\ InMiddle'
    BY <1>1, <2>1, <2>3 DEF HcTypes, InMiddle, Installs, Hc!Steps, Hc!Up
  <2>5. Hc!Names'
    BY <2>1, <2>2 DEF Hc!Names
  <2>6. FileForSaved' /\ AskedFor'
    BY <1>2, <2>1, <2>2, <2>5 DEF FileForSaved, AskedFor
  <2> QED BY <2>4, <2>6 DEF HcInv, Fine
<1> QED BY <1>3, <1>4, <1>5, <1>6

(* uninstall: what is put back was never ours.                             *)
LEMMA UninstallSteps ==
  ASSUME HcInv, Hc!PutMenuBack \/ Hc!SettleDefault
  PROVE  HcInv'
<1>1. /\ menu \in Known \cup {Hc!Garbled} /\ dflt \in 1..4 \cup {Hc!None, Hc!Empty}
      /\ due \in Nat /\ pre \in {<<>>} \cup {<<m>> : m \in Kept}
      /\ menu \in Ours => pre # <<>>
      /\ hstep \in Hc!Steps /\ (hstep # "none" => Hc!Up)
      /\ hrunning \in {"off", "stock", "openhc", "restoring", "dead"}
  BY DEF HcInv, HcTypes
<1>2. /\ Hc!None = 9 /\ Hc!Saved = 9 /\ Hc!Empty = 8
      /\ (hstep # "none" => hrunning # "restoring")
  BY <1>1 DEF Hc!None, Hc!Saved, Hc!Empty, Hc!Up
<1>3. CASE Hc!PutMenuBack
  <2>1. /\ hstep = "back" /\ hstep' \in {"settle", "tmp", "none"}
        /\ UNCHANGED <<dflt, pre, due, hrunning>>
        /\ menu' = IF pre # <<>> THEN pre[1] ELSE Hc!EditedMenu(menu)
        /\ hstep' = "settle" => menu'.guarded
        /\ hstep' = "tmp" => pre = <<>>
        /\ hstep' = "none" => ~menu'.guarded
        /\ lapses' = IF pre # <<>> /\ menu'.default = Hc!Saved /\ ~Hc!Names
                     THEN lapses \cup {"backup"} ELSE lapses
    BY <1>3 DEF Hc!PutMenuBack, Hc!Go, Hc!Finish
  <2>2. /\ menu' \in Kept \cup {Hc!Garbled}
        /\ pre = <<>> /\ menu' # Hc!Garbled => menu' \in Plain \cup Edited
        /\ menu' = Hc!Garbled => pre = <<>> /\ hstep' # "settle"
    <3>1. CASE pre # <<>>
      BY <1>1, <2>1, <3>1, Kinds
    <3>2. CASE pre = <<>> /\ menu = Hc!Garbled
      BY <2>1, <3>2 DEF Hc!EditedMenu, Hc!Garbled
    <3>3. CASE pre = <<>> /\ menu # Hc!Garbled
      <4>1. menu \in Kept
        BY <1>1, <3>3, Kinds
      <4>2. menu' \in Plain \cup Edited
        BY <2>1, <3>3, <4>1, EditedKnown
      <4> QED BY <4>2, Kinds
    <3> QED BY <3>1, <3>2, <3>3
  <2>3. menu' \in Known \cup {Hc!Garbled} /\ menu' \notin Ours
    BY <2>2, Kinds
  <2>4. HcTypes'
    BY <1>1, <2>1, <2>3 DEF HcTypes, Hc!Steps, Hc!Up
  <2>5. InMiddle'
    BY <1>1, <2>1, <2>2 DEF InMiddle, Installs
  <2>6. ASSUME lapses' = {}
        PROVE  FileForSaved' /\ AskedFor'
    <3>1. menu' # Hc!Garbled /\ menu'.default = Hc!Saved => Hc!Names
      <4>1. CASE pre # <<>>
        BY <2>1, <2>6, <4>1
      <4>2. CASE pre = <<>>
        BY <1>2, <2>2, <4>2, Kinds
      <4> QED BY <4>1, <4>2
    <3>2. hstep' = "settle" \/ menu' \notin Armed
      <4>1. CASE hstep' = "tmp"
        BY <2>1, <2>2, <4>1, Kinds
      <4>2. CASE hstep' = "none"
        BY <2>1, <4>2, ArmedMenus
      <4> QED BY <2>1, <4>1, <4>2
    <3> QED BY <1>2, <2>1, <3>1, <3>2 DEF FileForSaved, AskedFor, Restoring, Hc!Names
  <2> QED BY <2>4, <2>5, <2>6 DEF HcInv, Fine
<1>4. CASE Hc!SettleDefault
  <2>1. /\ hstep = "settle" /\ hstep' = "images"
        /\ UNCHANGED <<menu, pre, due, lapses, hrunning>> /\ menu \in Kept
        /\ dflt' = IF menu.default # Hc!Saved THEN Hc!None ELSE IF Hc!Names THEN 1 ELSE dflt
    BY <1>4 DEF Hc!SettleDefault, Hc!Go, Hc!ENTRY_VENDOR, HcInv, InMiddle
  <2>2. menu \in Known /\ menu # Hc!Garbled /\ Len(menu.vendors) \in {2, 3}
    BY <2>1, Kinds, KnownMenus
  <2>3. HcTypes' /\ InMiddle'
    BY <1>1, <2>1 DEF HcTypes, InMiddle, Installs, Hc!Steps, Hc!Up
  <2>4. ASSUME lapses' = {}
        PROVE  FileForSaved' /\ AskedFor'
    <3>1. menu.default = Hc!Saved => Hc!Names /\ dflt' = 1
      BY <2>1, <2>2, <2>4 DEF HcInv, Fine, FileForSaved
    <3>2. menu \in Armed => dflt' = 1
      BY <3>1, Kinds
    <3> QED BY <1>2, <2>1, <2>2, <3>1, <3>2
        DEF FileForSaved, AskedFor, Restoring, Hc!Names
  <2> QED BY <2>3, <2>4 DEF HcInv, Fine
<1> QED BY <1>3, <1>4

(* Booting: an armed entry is spent as it is booted.                       *)
LEMMA BootSteps ==
  ASSUME HcInv, Hc!boot_installed \/ Hc!PowerOn \/ Hc!PressButton \/ Hc!RestoreRuns
  PROVE  HcInv'
<1>1. /\ menu \in Known \cup {Hc!Garbled} /\ dflt \in 1..4 \cup {Hc!None, Hc!Empty}
      /\ due \in Nat /\ pre \in {<<>>} \cup {<<m>> : m \in Kept}
      /\ menu \in Ours => pre # <<>>
      /\ hstep \in Hc!Steps /\ (hstep # "none" => Hc!Up)
      /\ hrunning \in {"off", "stock", "openhc", "restoring", "dead"}
  BY DEF HcInv, HcTypes
<1>2. Hc!None = 9 /\ Hc!Saved = 9 /\ Hc!Empty = 8
  BY DEF Hc!None, Hc!Saved, Hc!Empty
<1>3. CASE Hc!boot_installed
  <2>1. /\ hstep = "none" /\ hstep' = "none" /\ UNCHANGED <<menu, pre, due, lapses>>
        /\ 2 \in DOMAIN Hc!titles(menu) /\ Hc!titles(menu)[2] = "openhc"
        /\ dflt' \in {2, dflt} /\ hrunning' = "off"
    BY <1>2, <1>3 DEF Hc!boot_installed, Hc!work, Hc!ENTRY_OPENHC
  <2>2. menu' \notin Armed
    BY <2>1, ArmedNotOurs
  <2>3. HcTypes' /\ InMiddle'
    BY <1>1, <2>1 DEF HcTypes, InMiddle, Installs
  <2>4. ASSUME lapses' = {}
        PROVE  FileForSaved' /\ AskedFor'
    BY <1>2, <2>1, <2>2, <2>4
       DEF HcInv, Fine, FileForSaved, AskedFor, Restoring, Hc!Names
  <2> QED BY <2>3, <2>4 DEF HcInv, Fine
<1>4. ASSUME NEW i \in Nat, Hc!Boot(i)
      PROVE  /\ hstep = "none" /\ hstep' = "none" /\ menu \in Known /\ hrunning = "off"
             /\ UNCHANGED <<menu, pre, lapses>>
             /\ hrunning' \in {"off", "stock", "openhc", "restoring"}
             /\ hrunning' = "restoring" => Hc!ChosenEntry(i).kind \in {"factory", "once"}
             /\ dflt' \in 1..4 \cup {Hc!None, Hc!Empty}
             /\ dflt # dflt' => dflt' = Hc!ChosenEntry(i).save /\ dflt' # Hc!None
             /\ Hc!Names => Hc!Names'
             /\ Hc!ChosenEntry(i).kind = "once" /\ Hc!Names =>
                   dflt' = Hc!ChosenEntry(i).save
  <2> DEFINE e == Hc!ChosenEntry(i)
  <2>1. /\ hrunning = "off" /\ menu # Hc!Garbled /\ hrunning' \in Hc!Reaches(e)
        /\ dflt' = IF e.save # Hc!None /\ Hc!Names
                      /\ (e.kind = "openhc" => hrunning' = "openhc")
                   THEN e.save ELSE dflt
        /\ UNCHANGED <<menu, pre, lapses>> /\ hstep' = hstep
    BY <1>4 DEF Hc!Boot, Hc!work
  <2>2. hstep = "none" /\ menu \in Known
    BY <1>1, <2>1 DEF Hc!Up
  <2>3. /\ hrunning' \in {"off", "stock", "openhc", "restoring"}
        /\ hrunning' = "restoring" => e.kind \in {"factory", "once"}
    BY <2>1 DEF Hc!Reaches
  <2>4. e.save \in 1..4 \cup {Hc!None}
    BY <2>2, EntryKinds
  <2>5. e.kind = "once" => e.save \in {3, 4}
    BY <2>2, EntryKinds
  <2> HIDE DEF e
  <2>6. Hc!Names => Hc!Names'
    BY <1>2, <2>1, <2>4 DEF Hc!Names
  <2> QED BY <1>1, <1>2, <2>1, <2>2, <2>3, <2>4, <2>5, <2>6 DEF e
<1>5. ASSUME NEW i \in Nat, Hc!Boot(i)
      PROVE  /\ (due' \in Nat => HcTypes') /\ InMiddle' /\ (lapses' = {} => FileForSaved')
             /\ Restoring' => Restoring /\ dflt' = dflt
  <2>1. (due' \in Nat => HcTypes') /\ InMiddle'
    BY <1>1, <1>4, <1>5 DEF HcTypes, InMiddle, Installs
  <2>2. lapses' = {} => FileForSaved'
    BY <1>4, <1>5 DEF HcInv, Fine, FileForSaved
  <2>3. Restoring' => Restoring /\ dflt' = dflt
    BY <1>4, <1>5, EntryKinds DEF Restoring
  <2> QED BY <2>1, <2>2, <2>3
<1>6. CASE Hc!PowerOn
  <2>1. Hc!Boot(Hc!Chosen) /\ due' = due
    BY <1>6 DEF Hc!PowerOn
  <2>2. menu \in Known /\ hstep = "none" /\ menu.default \in {1, 2, Hc!Saved}
    <3>1. menu \in Known /\ hstep = "none"
      BY <1>1, <2>1 DEF Hc!Boot, Hc!Up
    <3> QED BY <3>1, KnownMenus, MenuFields
  <2>3. Hc!Chosen \in Nat
    BY <1>1, <1>2, <2>2 DEF Hc!Chosen, Hc!Names
  <2>4. ASSUME lapses' = {}
        PROVE  AskedFor'
    <3>1. lapses = {} /\ hrunning = "off" /\ menu # Hc!Garbled
      BY <1>4, <2>1, <2>3, <2>4 DEF Hc!Boot
    <3>2. /\ menu.default = Hc!Saved => Hc!Names /\ Hc!Chosen = dflt
          /\ Hc!Chosen # 0
          /\ menu.default # Hc!Saved => Hc!Chosen \in {1, 2} /\ menu \notin Armed
      BY <1>1, <1>2, <2>2, <3>1, Kinds DEF HcInv, Fine, FileForSaved, Hc!Chosen, Hc!Names
    <3>3. menu \in Edited => Hc!Chosen = 1
      BY <1>2, <2>2, OnceMenus DEF Hc!Chosen
    <3>4. hrunning' = "restoring" => Restoring /\ ~Restoring'
      <4>1. ASSUME hrunning' = "restoring"
            PROVE  menu \in Armed /\ Hc!Chosen = Len(menu.vendors)
        BY <1>4, <2>1, <2>2, <2>3, <3>2, <3>3, <4>1, EntryKinds, KnownMenus
      <4>2. ASSUME hrunning' = "restoring"
            PROVE  Restoring /\ dflt' # dflt
        BY <1>4, <2>1, <2>2, <2>3, <3>2, <4>1, <4>2, EntryKinds, Kinds DEF Restoring
      <4> QED BY <1>5, <2>1, <2>3, <4>2
    <3> QED BY <1>5, <2>1, <2>2, <2>3, <3>1, <3>4 DEF HcInv, Fine, AskedFor
  <2> QED BY <1>1, <1>5, <2>1, <2>3, <2>4 DEF HcInv, Fine
<1>7. CASE Hc!PressButton
  <2>1. Hc!Boot(0) /\ due' = due + 1
    BY <1>7 DEF Hc!PressButton
  <2>2. hrunning = "off" /\ hstep = "none" /\ lapses' = lapses
    BY <1>4, <2>1
  <2>3. ASSUME lapses' = {}
        PROVE  AskedFor'
    BY <1>1, <1>5, <2>1, <2>2, <2>3 DEF HcInv, Fine, AskedFor
  <2> QED BY <1>1, <1>5, <2>1, <2>3 DEF HcInv, Fine
<1>8. CASE Hc!RestoreRuns
  <2>1. /\ hrunning = "restoring" /\ hrunning' = "off"
        /\ UNCHANGED <<menu, dflt, pre, hstep, lapses>>
        /\ due' = IF due = 0 THEN 0 ELSE due - 1
    BY <1>8 DEF Hc!RestoreRuns, Hc!bootloader, Hc!work
  <2>2. hstep = "none"
    BY <1>1, <2>1 DEF Hc!Up
  <2>3. HcTypes' /\ InMiddle'
    BY <1>1, <2>1, <2>2 DEF HcTypes, InMiddle, Installs
  <2>4. ASSUME lapses' = {}
        PROVE  FileForSaved' /\ AskedFor'
    BY <1>1, <2>1, <2>2, <2>4
       DEF HcInv, Fine, FileForSaved, AskedFor, Restoring, Hc!Names
  <2> QED BY <2>3, <2>4 DEF HcInv, Fine
<1> QED BY <1>3, <1>6, <1>7, <1>8

(* The initial states, with a backup or without.                           *)
LEMMA HcStarts ==
  ASSUME Hc!Init
  PROVE  HcInv
<1>1. menu \in Plain
  <2>1. \A g \in BOOLEAN, l \in Stocks : MenuOf(g, Hc!ENTRY_VENDOR, l, <<>>) \in Plain
    BY DEF Plain
  <2>2. \A l : Hc!Menu(Hc!ENTRY_VENDOR, l, <<>>) = MenuOf(TRUE, Hc!ENTRY_VENDOR, l, <<>>)
    BY DEF Hc!Menu, MenuOf
  <2>3. [Hc!Shipped EXCEPT !.guarded = FALSE] = MenuOf(FALSE, Hc!ENTRY_VENDOR, Hc!Vendors, <<>>)
    <3>1. ASSUME NEW s, NEW b, s \in [guarded : {TRUE, b}, default : {Hc!ENTRY_VENDOR},
                                      vendors : {Hc!Vendors}, ours : {<<>>}]
          PROVE  [s EXCEPT !.guarded = b] = MenuOf(b, Hc!ENTRY_VENDOR, Hc!Vendors, <<>>)
      BY <3>1 DEF MenuOf
    <3>2. Hc!Shipped \in [guarded : {TRUE, FALSE}, default : {Hc!ENTRY_VENDOR},
                          vendors : {Hc!Vendors}, ours : {<<>>}]
      BY DEF Hc!Shipped, Hc!Menu
    <3> QED BY <3>1, <3>2
  <2> QED BY <2>1, <2>2, <2>3 DEF Hc!Init, Hc!Shipped, Stocks, Hc!Vendors
<1>2. pre \in {<<>>, <<menu>>}
  BY DEF Hc!Init
<1>3. hrunning = "stock" /\ hstep = "none" /\ dflt = Hc!None /\ due = 0
  BY DEF Hc!Init
<1>4. /\ menu \in Kept /\ menu \in Known /\ menu \notin Ours /\ menu \notin Armed
      /\ menu.default # Hc!Saved
  BY <1>1, Kinds DEF Hc!Saved
<1>5. HcTypes /\ InMiddle
  BY <1>2, <1>3, <1>4 DEF HcTypes, InMiddle, Installs, Hc!Steps, Hc!Up
<1>6. FileForSaved /\ AskedFor
  BY <1>3, <1>4 DEF FileForSaved, AskedFor, Restoring
<1> QED BY <1>5, <1>6 DEF HcInv, Fine

(* Every step.                                                             *)
LEMMA HcStep ==
  ASSUME HcInv, HcConstants, [Hc!Next]_(Hc!vars)
  PROVE  HcInv'
<1>1. CASE UNCHANGED Hc!vars
  BY <1>1 DEF Hc!vars, Hc!bootloader, Hc!work, HcInv, HcTypes, InMiddle, Fine, FileForSaved,
     AskedFor, Restoring, Hc!Up, Hc!Names, Hc!OnceEntry
<1>2. CASE Hc!Next
  BY <1>2, QuietSteps, CutSteps, InstallSteps, RestoreSteps, UninstallSteps, BootSteps
     DEF Hc!Next, Hc!Grub
<1> QED BY <1>1, <1>2

(* The factory restore, which wipes the box, runs only when asked for, until *)
(* one of the three lapses the property names: on a fresh box and on one    *)
(* installed before, in either mode, for any number of operations, presses  *)
(* of the button and cuts at any step.                                      *)
THEOREM RestoresOnlyAskedAlways == Hc!Spec => []RestoresOnlyAsked
<1>1. Hc!Init => HcInv
  BY HcStarts
<1>2. HcInv /\ [Hc!Next]_(Hc!vars) => HcInv'
  BY HcConstants, HcStep
<1>3. HcInv => RestoresOnlyAsked
  BY DEF HcInv, Fine, AskedFor, RestoresOnlyAsked, Hc!RestoresOnlyAsked
<1> QED BY <1>1, <1>2, <1>3, PTL DEF Hc!Spec
=============================================================================
