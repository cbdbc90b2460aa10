----------------------------- MODULE BootProofs -----------------------------
(***************************************************************************)
(* That the parts of kmain do what they promise, whatever they are handed:  *)
(* the CPU finds the TSS and the stubs wherever the linker puts them, the   *)
(* date and time are the clock's whenever rtc_read is called and however    *)
(* long it takes, and modules start as their names say whatever the memory  *)
(* map.  Each part has an invariant of its own; that kmain runs the parts   *)
(* as their own modules say makes these invariants hold of kmain.           *)
(***************************************************************************)
EXTENDS Boot, WellFoundedInduction, TLAPS

-----------------------------------------------------------------------------
(* Numbers *)

(* A set of naturals has a least element.                                   *)
LEMMA LeastNumber ==
  ASSUME NEW T \in SUBSET Nat, T # {}
  PROVE  \E m \in T : \A k \in T : m <= k
<1> DEFINE R == {ss \in Nat \X Nat : ss[1] < ss[2]}
<1>1. IsWellFoundedOn(R, Nat)
    BY NatLessThanWellFounded DEF OpToRel
<1> HIDE DEF R
<1>2. PICK m \in T : \A k \in T : ~(<<k, m>> \in R)
    BY <1>1, WFMin, Zenon
<1>3. ASSUME NEW k \in T PROVE m <= k
  <2>1. <<k, m>> \in Nat \X Nat /\ ~(<<k, m>> \in R)
      BY <1>2
  <2>2. ~(k < m)
      BY <2>1 DEF R
  <2> QED
      BY <2>1, <2>2
<1> QED
    BY <1>3

-----------------------------------------------------------------------------
(* The tables: the invariant says how far idt_init has come.  Gates below   *)
(* the next vector lead to their stubs, and interrupts are enabled behind   *)
(* the last one only.                                                       *)

Loaded == [tr |-> 64, data |-> 16, cs |-> 8]

Placed  == tss \in Addresses /\ names \in [0..Stubs - 1 -> Addresses]
Filled  == IF gdt = <<>> THEN i = 0 ELSE gdt = Gdt /\ selectors = Loaded
Gates   == DOMAIN idt = 0..255 /\ \A v \in 0..47 : v < i => idt[v] = Gate(names[v])
Enabled == i \in 0..47 \cup {255, 256} /\ (interrupts => i = 256)

TablesInv == Placed /\ Filled /\ Gates /\ Enabled

-----------------------------------------------------------------------------
(* Addresses *)

(* The fields of a gate, in the order of their weight, are the address of   *)
(* the stub (cpu.c:248-258).                                                *)
LEMMA GateLeadsTo ==
  ASSUME NEW a \in Addresses
  PROVE  Target(Gate(a)) = a
<1>1. a \in [1..8 -> 0..255]
  BY AddressesAssumption
<1>2. Target(Gate(a)) = (SubSeq(a, 1, 2) \o SubSeq(a, 3, 4)) \o SubSeq(a, 5, 8)
  BY DEF Target, Gate
<1>3. SubSeq(a, 1, 2) \o SubSeq(a, 3, 4) = SubSeq(a, 1, 4)
  BY <1>1
<1>4. SubSeq(a, 1, 4) \o SubSeq(a, 5, 8) = a
  BY <1>1
<1> QED
  BY <1>2, <1>3, <1>4

(* And those of the two descriptors of the TSS its address (cpu.c:215-239). *)
LEMMA TaskFound ==
  ASSUME tss \in Addresses, gdt = Gdt
  PROVE  TaskAt(9) = tss
<1>1. tss \in [1..8 -> 0..255]
  BY AddressesAssumption
<1>2. gdt[9] = TssLow(tss) /\ gdt[9 + 1] = TssHigh(tss)
  BY DEF Gdt
<1>3. TaskAt(9) = (((TssLow(tss).base_15_0 \o TssLow(tss).base_23_16) \o TssLow(tss).base_31_24)
                     \o TssHigh(tss).limit_15_0) \o TssHigh(tss).base_15_0
  BY <1>2 DEF TaskAt
<1>4. /\ TssLow(tss).base_15_0 = SubSeq(tss, 1, 2) /\ TssLow(tss).base_23_16 = <<tss[3]>>
      /\ TssLow(tss).base_31_24 = <<tss[4]>>
      /\ TssHigh(tss).limit_15_0 = SubSeq(tss, 5, 6) /\ TssHigh(tss).base_15_0 = SubSeq(tss, 7, 8)
  BY DEF TssLow, TssHigh
<1>5. SubSeq(tss, 1, 2) \o <<tss[3]>> = SubSeq(tss, 1, 3)
  BY <1>1
<1>6. SubSeq(tss, 1, 3) \o <<tss[4]>> = SubSeq(tss, 1, 4)
  BY <1>1
<1>7. SubSeq(tss, 1, 4) \o SubSeq(tss, 5, 6) = SubSeq(tss, 1, 6)
  BY <1>1
<1>8. SubSeq(tss, 1, 6) \o SubSeq(tss, 7, 8) = tss
  BY <1>1
<1> QED
  BY <1>3, <1>4, <1>5, <1>6, <1>7, <1>8

-----------------------------------------------------------------------------
(* The tables *)

LEMMA GdtFilled == Gdt # <<>> /\ Gdt[2] = Code /\ Gdt[3] = Data
BY DEF Gdt

(* No vector is before the first.                                           *)
LEMMA InitTablesInv == Init => TablesInv
<1> SUFFICES ASSUME Init PROVE TablesInv
  OBVIOUS
<1>1. Placed
  BY NameTablesAssumption DEF Init, Placed
<1>2. Gates
  BY DEF Init, Gates
<1> QED
  BY <1>1, <1>2 DEF Init, TablesInv, Filled, Enabled

(* One gate more, and the vector after it.                                  *)
LEMMA DescriptorStep ==
  ASSUME TablesInv, create_descriptor
  PROVE  TablesInv'
<1>1. UNCHANGED <<tss, names, gdt, selectors, interrupts>> /\ gdt # <<>>
  BY DEF create_descriptor
<1>2. i \in 0..47 \cup {255} /\ i' = AfterVector(i)
  BY DEF create_descriptor, TablesInv, Enabled
<1>3. i' \in 0..47 \cup {255, 256}
  BY <1>2 DEF AfterVector, LastIrqVector
<1>4. PICK a \in StubOf(i) : idt' = [idt EXCEPT ![i] = Gate(a)]
  BY DEF create_descriptor
<1>5. i \in 0..47 => a = names[i]
  BY <1>4, StubsAssumption DEF StubOf
<1>6. Placed' /\ Filled'
  BY <1>1 DEF TablesInv, Placed, Filled, Gdt
<1>7. Enabled'
  BY <1>1, <1>2, <1>3 DEF TablesInv, Enabled
<1>8. DOMAIN idt = 0..255 /\ \A v \in 0..47 : v < i => idt[v] = Gate(names[v])
  BY DEF TablesInv, Gates
<1>9. ASSUME NEW v \in 0..47, v < i' PROVE idt'[v] = Gate(names[v])
  <2>1. CASE v = i
    BY <1>4, <1>5, <1>8, <2>1
  <2>2. CASE v # i
    <3>1. v < i
      BY <1>2, <1>9, <2>2 DEF AfterVector, LastIrqVector
    <3> QED
      BY <1>4, <1>8, <2>2, <3>1
  <2> QED
    BY <2>1, <2>2
<1>10. DOMAIN idt' = 0..255
  BY <1>4, <1>8
<1>11. Gates'
  BY <1>1, <1>9, <1>10 DEF Gates
<1> QED
  BY <1>6, <1>7, <1>11 DEF TablesInv

LEMMA TablesInductive == TablesInv /\ [Next]_vars => TablesInv'
<1> SUFFICES ASSUME TablesInv, [Next]_vars PROVE TablesInv'
  OBVIOUS
<1>1. CASE gdt_init
  <2>1. UNCHANGED <<tss, names, idt, i, interrupts>> /\ gdt' = Gdt /\ selectors' = Loaded
    BY <1>1 DEF gdt_init, Loaded
  <2>2. Gdt' = Gdt
    BY <2>1 DEF Gdt
  <2>3. Filled'
    BY <2>1, <2>2, GdtFilled DEF Filled
  <2> QED
    BY <2>1, <2>3 DEF TablesInv, Placed, Gates, Enabled
<1>2. CASE create_descriptor
  BY <1>2, DescriptorStep
<1>3. CASE _load_idt_asm
  <2>1. UNCHANGED <<tss, names, gdt, idt, i, selectors>> /\ i = 256
    BY <1>3 DEF _load_idt_asm
  <2>2. Placed' /\ Filled' /\ Gates'
    BY <2>1 DEF TablesInv, Placed, Filled, Gates, Gdt
  <2> QED
    BY <2>1, <2>2 DEF TablesInv, Enabled
<1>4. CASE UNCHANGED vars
  BY <1>4 DEF vars, TablesInv, Placed, Filled, Gates, Enabled, Gdt
<1> QED
  BY <1>1, <1>2, <1>3, <1>4 DEF Next

LEMMA TablesFind == TablesInv => SelectorsFind
<1> SUFFICES ASSUME TablesInv, gdt # <<>> PROVE SelectorsFind
  BY DEF SelectorsFind
<1>1. gdt = Gdt /\ selectors = Loaded /\ TaskAt(9) = tss
  BY TaskFound, SMTT(60) DEF TablesInv, Placed, Filled
<1> QED
  BY <1>1, GdtFilled DEF SelectorsFind, Selector, Loaded

LEMMA TablesReach == TablesInv => InterruptsReachStubs
<1> SUFFICES ASSUME TablesInv, interrupts, NEW v \in 0..47
             PROVE  /\ Present(idt[v]) /\ gdt[idt[v].selector \div 8 + 1] = Code
                    /\ Target(idt[v]) = names[v]
  BY DEF InterruptsReachStubs
<1>1. idt[v] = Gate(names[v])
  BY DEF TablesInv, Gates, Enabled
<1>2. gdt = Gdt
  BY DEF TablesInv, Filled, Enabled
<1>3. idt[v].type = 142 /\ idt[v].selector = 8
  BY <1>1 DEF Gate
<1>4. v \in 0..Stubs - 1
  BY StubsAssumption
<1>5. names[v] \in Addresses
  BY <1>4 DEF TablesInv, Placed
<1>6. Target(idt[v]) = names[v]
  BY <1>1, <1>5, GateLeadsTo
<1> QED
  BY <1>2, <1>3, <1>6, GdtFilled, SMTT(60) DEF Present

-----------------------------------------------------------------------------
(* Times *)

(* Later(a, b): b is after a.  NotLater(n, a, b): the first n fields of a,  *)
(* from the year down, are not after those of b.                            *)
Later(a, b) ==
  \/ a["Year"] < b["Year"]
  \/ a["Year"] = b["Year"] /\
     \/ a["Month"] < b["Month"]
     \/ a["Month"] = b["Month"] /\
        \/ a["Day"] < b["Day"]
        \/ a["Day"] = b["Day"] /\
           \/ a["Hour"] < b["Hour"]
           \/ a["Hour"] = b["Hour"] /\
              \/ a["Minute"] < b["Minute"]
              \/ a["Minute"] = b["Minute"] /\ a["Second"] < b["Second"]

NotLater(n, a, b) ==
  n >= 1 => /\ a["Year"] <= b["Year"]
            /\ a["Year"] = b["Year"] /\ n >= 2 =>
                 /\ a["Month"] <= b["Month"]
                 /\ a["Month"] = b["Month"] /\ n >= 3 =>
                      /\ a["Day"] <= b["Day"]
                      /\ a["Day"] = b["Day"] /\ n >= 4 =>
                           /\ a["Hour"] <= b["Hour"]
                           /\ a["Hour"] = b["Hour"] /\ n >= 5 =>
                                /\ a["Minute"] <= b["Minute"]
                                /\ a["Minute"] = b["Minute"] /\ n >= 6 =>
                                     a["Second"] <= b["Second"]

Times == [Clock!Fields -> Int]

LEMMA FieldsOfTimes ==
  ASSUME NEW a \in Times
  PROVE  /\ a["Year"] \in Int /\ a["Month"] \in Int /\ a["Day"] \in Int
         /\ a["Hour"] \in Int /\ a["Minute"] \in Int /\ a["Second"] \in Int
  BY DEF Times, Clock!Fields

LEMMA LaterIrreflexive == ASSUME NEW a \in Times PROVE ~Later(a, a)
  BY FieldsOfTimes DEF Later

LEMMA LaterTransitive ==
  ASSUME NEW a \in Times, NEW b \in Times, NEW c \in Times, Later(a, b), Later(b, c)
  PROVE  Later(a, c)
<1>1. /\ a["Year"] \in Int /\ a["Month"] \in Int /\ a["Day"] \in Int
      /\ a["Hour"] \in Int /\ a["Minute"] \in Int /\ a["Second"] \in Int
    BY FieldsOfTimes
<1>2. /\ b["Year"] \in Int /\ b["Month"] \in Int /\ b["Day"] \in Int
      /\ b["Hour"] \in Int /\ b["Minute"] \in Int /\ b["Second"] \in Int
    BY FieldsOfTimes
<1>3. /\ c["Year"] \in Int /\ c["Month"] \in Int /\ c["Day"] \in Int
      /\ c["Hour"] \in Int /\ c["Minute"] \in Int /\ c["Second"] \in Int
    BY FieldsOfTimes
<1> QED
    BY <1>1, <1>2, <1>3 DEF Later

LEMMA StaysNotLater ==
  ASSUME NEW n \in 0..6, NEW a \in Times, NEW b \in Times, NEW c \in Times,
         NotLater(n, a, b), Later(b, c)
  PROVE  NotLater(n, a, c)
<1>1. /\ a["Year"] \in Int /\ a["Month"] \in Int /\ a["Day"] \in Int
      /\ a["Hour"] \in Int /\ a["Minute"] \in Int /\ a["Second"] \in Int
    BY FieldsOfTimes
<1>2. /\ b["Year"] \in Int /\ b["Month"] \in Int /\ b["Day"] \in Int
      /\ b["Hour"] \in Int /\ b["Minute"] \in Int /\ b["Second"] \in Int
    BY FieldsOfTimes
<1>3. /\ c["Year"] \in Int /\ c["Month"] \in Int /\ c["Day"] \in Int
      /\ c["Hour"] \in Int /\ c["Minute"] \in Int /\ c["Second"] \in Int
    BY FieldsOfTimes
<1> QED
    BY <1>1, <1>2, <1>3 DEF NotLater, Later

(* A second later the clock shows a valid time, and a later one.            *)
LEMMA NextSecondIsLater ==
  ASSUME NEW t, Clock!ValidTime(t)
  PROVE  /\ Clock!ValidTime(Clock!NextSecond(t))
         /\ Later(t, Clock!NextSecond(t))
<1> DEFINE u == Clock!NextSecond(t)
           s == t["Second"] = 59
           n == s /\ t["Minute"] = 59
           h == n /\ t["Hour"] = 23
           d == h /\ t["Day"] = Clock!DaysIn(t["Month"], t["Year"])
           m == d /\ t["Month"] = 12
<1>1. /\ t["Year"] \in Nat /\ t["Year"] >= 1970 /\ t["Month"] \in 1..12
      /\ t["Day"] \in 1..Clock!DaysIn(t["Month"], t["Year"])
      /\ t["Hour"] \in 0..23 /\ t["Minute"] \in 0..59 /\ t["Second"] \in 0..59
    BY DEF Clock!ValidTime, Clock!Fields
<1>2. Clock!DaysIn(t["Month"], t["Year"]) \in 28..31
    BY DEF Clock!DaysIn
<1>3. /\ u["Second"] = (IF s THEN 0 ELSE t["Second"] + 1)
      /\ u["Minute"] = (IF n THEN 0 ELSE IF s THEN t["Minute"] + 1 ELSE t["Minute"])
      /\ u["Hour"] = (IF h THEN 0 ELSE IF n THEN t["Hour"] + 1 ELSE t["Hour"])
      /\ u["Day"] = (IF d THEN 1 ELSE IF h THEN t["Day"] + 1 ELSE t["Day"])
      /\ u["Month"] = (IF m THEN 1 ELSE IF d THEN t["Month"] + 1 ELSE t["Month"])
      /\ u["Year"] = (IF m THEN t["Year"] + 1 ELSE t["Year"])
    BY DEF Clock!NextSecond
<1>4. DOMAIN u = Clock!Fields /\ u = [f \in Clock!Fields |-> u[f]]
    BY DEF Clock!NextSecond, Clock!Fields
<1> HIDE DEF u
<1>5. /\ u["Year"] \in Nat /\ u["Year"] >= 1970 /\ u["Month"] \in 1..12
      /\ u["Hour"] \in 0..23 /\ u["Minute"] \in 0..59 /\ u["Second"] \in 0..59
    BY <1>1, <1>3
<1>6. u["Day"] \in 1..Clock!DaysIn(u["Month"], u["Year"])
  <2>1. CASE d
    <3>1. u["Day"] = 1
        BY <1>3, <2>1
    <3>2. Clock!DaysIn(u["Month"], u["Year"]) \in 28..31
        BY DEF Clock!DaysIn
    <3> QED
        BY <3>1, <3>2
  <2>2. CASE ~d
    <3>1. u["Month"] = t["Month"] /\ u["Year"] = t["Year"]
        BY <1>3, <2>2
    <3>2. u["Day"] \in 1..Clock!DaysIn(t["Month"], t["Year"])
        BY <1>1, <1>2, <1>3, <2>2
    <3> QED
        BY <3>1, <3>2
  <2> QED
      BY <2>1, <2>2
<1>7. u \in [Clock!Fields -> Nat]
  <2>1. Clock!DaysIn(u["Month"], u["Year"]) \in 28..31
      BY DEF Clock!DaysIn
  <2>2. \A f \in Clock!Fields : u[f] \in Nat
      BY <1>5, <1>6, <2>1 DEF Clock!Fields
  <2> QED
      BY <1>4, <2>2
<1>8. Clock!ValidTime(u)
    BY <1>5, <1>6, <1>7 DEF Clock!ValidTime
<1>9. Later(t, u)
    BY <1>1, <1>3 DEF Later
<1> QED
    BY <1>8, <1>9 DEF u

-----------------------------------------------------------------------------
(* Registers *)

(* What the conversion makes of registers r.                                *)
RawOf(r, f) == IF mode.binary THEN r[f] ELSE Clock!bcd_to_binary(r[f])
DecodedOf(r) == [f \in Clock!Fields |->
                   CASE f = "Year" -> Clock!FullYear(RawOf(r, "Year"))
                     [] f = "Hour" -> Clock!HourOf(r["Hour"])
                     [] OTHER -> RawOf(r, f)]

Settings == [binary : BOOLEAN, hours24 : BOOLEAN]
Registers == [Clock!Fields -> Nat]

LEMMA BcdDecodes ==
  ASSUME NEW v \in 0..99
  PROVE  Clock!Bcd(v) \in 0..153 /\ Clock!bcd_to_binary(Clock!Bcd(v)) = v
<1>1. v \div 10 \in 0..9 /\ v % 10 \in 0..9 /\ v = 10 * (v \div 10) + (v % 10)
    OBVIOUS
<1>2. /\ ((v \div 10) * 16 + (v % 10)) % 16 = v % 10
      /\ ((v \div 10) * 16 + (v % 10)) \div 16 = v \div 10
    BY <1>1
<1> QED
    BY <1>1, <1>2 DEF Clock!Bcd, Clock!bcd_to_binary

LEMMA HourDecodes ==
  ASSUME mode \in Settings, NEW h \in 0..23
  PROVE  /\ Clock!HourByte(h) \in 0..255
         /\ Clock!HourOf(Clock!HourByte(h)) =
              IF mode.hours24 \/ h % 12 # 0 THEN h ELSE IF h = 0 THEN 12 ELSE 0
<1>1. mode.binary \in BOOLEAN /\ mode.hours24 \in BOOLEAN
    BY DEF Settings
<1>2. CASE mode.binary /\ mode.hours24
    BY <1>2 DEF Clock!HourByte, Clock!Encode, Clock!HourOf, Clock!Hour24
<1>3. CASE mode.binary /\ ~mode.hours24
    BY <1>3 DEF Clock!HourByte, Clock!Encode, Clock!HourOf, Clock!Hour24
<1>4. CASE ~mode.binary /\ mode.hours24
  <2>1. Clock!HourByte(h) = Clock!Bcd(h)
      BY <1>4 DEF Clock!HourByte, Clock!Encode
  <2>2. Clock!Bcd(h) < 128 /\ Clock!Bcd(h) \in Nat
      BY DEF Clock!Bcd
  <2>3. Clock!Bcd(h) % 128 = Clock!Bcd(h) /\ Clock!Bcd(h) \div 128 = 0
      BY <2>2
  <2>4. Clock!bcd_to_binary(Clock!Bcd(h)) = h
      BY BcdDecodes, SMTT(60)
  <2>5. Clock!HourOf(Clock!Bcd(h)) = Clock!Hour24(h + 0 * 128)
      BY <1>4, <2>3, <2>4 DEF Clock!HourOf
  <2>6. Clock!Hour24(h + 0 * 128) = h
      BY <1>4 DEF Clock!Hour24
  <2> QED
      BY <1>4, <2>1, <2>2, <2>5, <2>6
<1>5. CASE ~mode.binary /\ ~mode.hours24
  <2> DEFINE k == IF h % 12 = 0 THEN 12 ELSE h % 12
             pm == IF h >= 12 THEN 128 ELSE 0
  <2>1. k \in 1..12 /\ pm \in {0, 128}
      OBVIOUS
  <2>2. Clock!HourByte(h) = Clock!Bcd(k) + pm
      BY <1>5 DEF Clock!HourByte, Clock!Encode
  <2>3. Clock!Bcd(k) \in 0..127 /\ Clock!bcd_to_binary(Clock!Bcd(k)) = k
    <3>1. Clock!Bcd(k) \in 0..127
        BY <2>1 DEF Clock!Bcd
    <3> QED
        BY <2>1, <3>1, BcdDecodes, SMTT(60)
  <2>4. h = (IF h >= 12 THEN 12 ELSE 0) + (IF k = 12 THEN 0 ELSE k)
      OBVIOUS
  <2> HIDE DEF k
  <2>5. (Clock!Bcd(k) + pm) % 128 = Clock!Bcd(k) /\ (Clock!Bcd(k) + pm) \div 128 = pm \div 128
      BY <2>1, <2>3
  <2>6. Clock!HourOf(Clock!HourByte(h)) = Clock!Hour24(k + pm)
    <3>1. (pm \div 128) * 128 = pm
        BY <2>1
    <3> QED
        BY <1>5, <2>2, <2>3, <2>5, <3>1 DEF Clock!HourOf
  <2>7. Clock!Hour24(k + pm) = IF pm = 128 THEN (k + 12) % 24 ELSE k
      BY <1>5, <2>1 DEF Clock!Hour24
  <2>8. k = 12 <=> h % 12 = 0
      BY DEF k
  <2> QED
      BY <1>5, <2>1, <2>2, <2>3, <2>4, <2>6, <2>7, <2>8
<1> QED
    BY <1>1, <1>2, <1>3, <1>4, <1>5

LEMMA YearDecodes ==
  ASSUME NEW y \in Nat, y >= 1970
  PROVE  /\ y % 100 \in 0..99
         /\ Clock!FullYear(y % 100) <= y /\ Clock!FullYear(y % 100) \in Int
         /\ y <= 2069 => Clock!FullYear(y % 100) = y
  BY DEF Clock!FullYear

LEMMA DecodedIsTime ==
  ASSUME mode \in Settings, NEW r \in Registers
  PROVE  DecodedOf(r) \in Times
<1>1. \A f \in Clock!Fields : r[f] \in Nat
    BY DEF Registers
<1>2. \A f \in Clock!Fields : RawOf(r, f) \in Int
    BY <1>1 DEF RawOf, Clock!bcd_to_binary
<1>3. Clock!HourOf(r["Hour"]) \in Int
  <2>1. r["Hour"] \in Nat
      BY <1>1 DEF Clock!Fields
  <2> QED
      BY <2>1 DEF Clock!HourOf, Clock!Hour24, Clock!bcd_to_binary
<1>4. Clock!FullYear(RawOf(r, "Year")) \in Int
  <2>1. RawOf(r, "Year") \in Int
      BY <1>2 DEF Clock!Fields
  <2> QED
      BY <2>1 DEF Clock!FullYear
<1>5. ASSUME NEW f \in Clock!Fields PROVE DecodedOf(r)[f] \in Int
    BY <1>2, <1>3, <1>4, <1>5 DEF DecodedOf
<1> QED
    BY <1>5 DEF DecodedOf, Times

LEMMA ValidIsTime == ASSUME NEW t, Clock!ValidTime(t) PROVE t \in Times
  BY DEF Clock!ValidTime, Times

(* A field read from the clock outside an update.                           *)
LEMMA FieldDecodes ==
  ASSUME mode \in Settings, NEW t, Clock!ValidTime(t), NEW r, NEW f \in Clock!Fields,
         r[f] = Clock!Register(t, f)
  PROVE  /\ r[f] \in Nat
         /\ f \notin {"Year", "Hour"} => RawOf(r, f) = t[f] /\ DecodedOf(r)[f] = t[f]
         /\ f = "Year" => /\ RawOf(r, f) = t["Year"] % 100
                          /\ DecodedOf(r)[f] <= t["Year"]
                          /\ t["Year"] <= 2069 => DecodedOf(r)[f] = t["Year"]
         /\ f = "Hour" => DecodedOf(r)[f] = IF mode.hours24 \/ t["Hour"] % 12 # 0 THEN t["Hour"]
                                            ELSE IF t["Hour"] = 0 THEN 12 ELSE 0
<1>1. /\ t["Year"] \in Nat /\ t["Year"] >= 1970 /\ t["Month"] \in 0..99
      /\ t["Day"] \in 0..99 /\ t["Hour"] \in 0..23
      /\ t["Minute"] \in 0..99 /\ t["Second"] \in 0..99
  <2>1. Clock!DaysIn(t["Month"], t["Year"]) \in 28..31
      BY DEF Clock!DaysIn
  <2> QED
      BY <2>1 DEF Clock!ValidTime, Clock!Fields
<1>2. \A v \in 0..99 : /\ Clock!Encode(v) \in Nat
                       /\ (IF mode.binary THEN Clock!Encode(v)
                           ELSE Clock!bcd_to_binary(Clock!Encode(v))) = v
  <2> TAKE v \in 0..99
  <2>1. Clock!Bcd(v) \in 0..153 /\ Clock!bcd_to_binary(Clock!Bcd(v)) = v
      BY BcdDecodes, Zenon
  <2>2. CASE mode.binary
      BY <2>2 DEF Clock!Encode
  <2>3. CASE ~mode.binary
      BY <2>1, <2>3 DEF Clock!Encode
  <2> QED
      BY <2>2, <2>3
<1>3. CASE f \notin {"Year", "Hour"}
  <2>1. t[f] \in 0..99 /\ r[f] = Clock!Encode(t[f])
      BY <1>1, <1>3 DEF Clock!Fields, Clock!Register
  <2>2. RawOf(r, f) = t[f] /\ r[f] \in Nat
      BY <1>2, <2>1 DEF RawOf
  <2> QED
      BY <1>3, <2>2 DEF DecodedOf
<1>4. CASE f = "Year"
  <2>1. r[f] = Clock!Encode(t["Year"] % 100) /\ t["Year"] % 100 \in 0..99
      BY <1>1, <1>4 DEF Clock!Register
  <2>2. RawOf(r, f) = t["Year"] % 100 /\ r[f] \in Nat
      BY <1>2, <2>1 DEF RawOf
  <2>3. DecodedOf(r)[f] = Clock!FullYear(t["Year"] % 100)
      BY <1>4, <2>2 DEF DecodedOf
  <2> QED
      BY <1>1, <1>4, <2>2, <2>3, YearDecodes
<1>5. CASE f = "Hour"
  <2>1. r[f] = Clock!HourByte(t["Hour"])
      BY <1>5 DEF Clock!Register
  <2>2. DecodedOf(r)[f] = Clock!HourOf(Clock!HourByte(t["Hour"]))
      BY <1>5, <2>1 DEF DecodedOf
  <2>3. t["Hour"] \in 0..23
      BY <1>1
  <2>4. /\ Clock!HourByte(t["Hour"]) \in 0..255
        /\ Clock!HourOf(Clock!HourByte(t["Hour"])) =
             IF mode.hours24 \/ t["Hour"] % 12 # 0 THEN t["Hour"]
             ELSE IF t["Hour"] = 0 THEN 12 ELSE 0
      BY <2>3, HourDecodes, Zenon
  <2> QED
      BY <1>5, <2>1, <2>2, <2>4
<1> QED
    BY <1>3, <1>4, <1>5

-----------------------------------------------------------------------------
(* The read *)

Places == {"wait", "read1", "read2", "read3", "read4", "read5", "read6",
           "convert", "done"}
Over == {"convert", "done"}

(* How many registers have been read.                                       *)
Count(p) == CASE p = "read2" -> 1 [] p = "read3" -> 2 [] p = "read4" -> 3
              [] p = "read5" -> 4 [] p = "read6" -> 5 [] p \in Over -> 6 [] OTHER -> 0

ReadFrom(r, n, t) ==
  \A k \in 1..n : r[Clock!ReadOrder[k]] = Clock!Register(t, Clock!ReadOrder[k])

Types ==
  /\ Clock!ValidTime(time) /\ mode \in Settings /\ registers \in Registers
  /\ pc \in Places
  /\ Count(pc) >= 1 => Clock!ValidTime(began)
  /\ pc \in Over => Clock!ValidTime(ended)

(* No field read is later than the clock, unless it is the midnight hour.   *)
HourIsFine(r, n) == n < 4 \/ mode.hours24 \/ DecodedOf(r)["Hour"] # 12
ReadsPast(r, n, t) == HourIsFine(r, n) => NotLater(n, DecodedOf(r), t)

(* Either no second has passed since the first read, and all registers are  *)
(* those of one time, or the clock is past it.                              *)
ReadsOneTime(r, n, t) == (began = t /\ ReadFrom(r, n, t)) \/ Later(began, t)

Now == IF pc \in Over THEN ended ELSE time
Reads ==
  ~torn => /\ ReadsPast(registers, Count(pc), Now)
           /\ Count(pc) >= 1 => ReadsOneTime(registers, Count(pc), Now)

Converted ==
  pc = "done" =>
    /\ \A f \in Clock!Fields : result[f] = DecodedOf(registers)[f]
    /\ result["Weekday"] = Clock!weekday(RawOf(registers, "Day"), RawOf(registers, "Month"),
                                        RawOf(registers, "Year"))

ClockInv == Types /\ Reads /\ Converted

LEMMA InitClockInv == Clock!Init => ClockInv
<1> SUFFICES ASSUME Clock!Init PROVE ClockInv
    OBVIOUS
<1>1. Clock!ValidTime(time) /\ mode \in Settings /\ pc = "wait"
    BY StartsAssumption, ModesAssumption DEF Clock!Init, Settings
<1>2. registers \in Registers
    BY DEF Clock!Init, Clock!Blank, Registers
<1>3. Count(pc) = 0 /\ pc \notin Over
    BY <1>1 DEF Count, Over
<1>4. Types
    BY <1>1, <1>2, <1>3 DEF Types, Places
<1>5. Reads
    BY <1>3 DEF Reads, ReadsPast, NotLater
<1> QED
    BY <1>1, <1>4, <1>5 DEF ClockInv, Converted

(* A second more.                                                           *)
LEMMA EndUpdateStep == ASSUME ClockInv, Clock!EndUpdate PROVE ClockInv'
<1>1. /\ time' = Clock!NextSecond(time)
      /\ UNCHANGED <<mode, pc, registers, result, began, ended, torn>>
    BY DEF Clock!EndUpdate
<1>2. /\ Clock!ValidTime(time) /\ mode \in Settings /\ registers \in Registers
      /\ pc \in Places
      /\ (Count(pc) >= 1 => Clock!ValidTime(began)) /\ (pc \in Over => Clock!ValidTime(ended))
    BY DEF ClockInv, Types
<1>3. Clock!ValidTime(time') /\ Later(time, time')
    BY <1>1, <1>2, NextSecondIsLater
<1>4. Types'
    BY <1>1, <1>2, <1>3 DEF Types, Clock!ValidTime, Clock!DaysIn, Clock!Leap, Clock!Fields
<1>5. DecodedOf(registers)' = DecodedOf(registers)
    BY <1>1 DEF DecodedOf, RawOf, Clock!HourOf, Clock!Hour24
<1>6. Converted'
    BY <1>1, <1>5 DEF ClockInv, Converted, RawOf
<1>7. ASSUME ~torn PROVE Reads'
  <2>1. /\ ReadsPast(registers, Count(pc), Now)
        /\ Count(pc) >= 1 => ReadsOneTime(registers, Count(pc), Now)
      BY <1>7 DEF ClockInv, Reads
  <2>2. CASE pc \in Over
      BY <1>1, <1>5, <2>1, <2>2
      DEF Reads, Now, ReadsPast, HourIsFine, ReadsOneTime, ReadFrom, Clock!Register,
          Clock!HourByte, Clock!Encode, Count
  <2>3. CASE pc \notin Over
    <3>1. Now = time /\ Now' = time'
        BY <1>1, <2>3 DEF Now
    <3>2. time \in Times /\ time' \in Times /\ DecodedOf(registers) \in Times
        BY <1>2, <1>3, ValidIsTime, DecodedIsTime
    <3>3. Count(pc) \in 0..6
        BY DEF Count
    <3>4. HourIsFine(registers, Count(pc))' => NotLater(Count(pc), DecodedOf(registers), time')
      <4>1. HourIsFine(registers, Count(pc))' = HourIsFine(registers, Count(pc))
          BY <1>1, <1>5 DEF HourIsFine, Count
      <4> QED
          BY <1>3, <2>1, <3>1, <3>2, <3>3, <4>1, StaysNotLater DEF ReadsPast
    <3>5. Count(pc) >= 1 => Later(began, time')
      <4> SUFFICES ASSUME Count(pc) >= 1 PROVE Later(began, time')
          OBVIOUS
      <4>1. began \in Times
          BY <1>2, ValidIsTime
      <4>2. began = time \/ Later(began, time)
          BY <2>1, <3>1 DEF ReadsOneTime
      <4> QED
          BY <1>3, <3>2, <4>1, <4>2, LaterTransitive
    <3>6. Count(pc)' = Count(pc)
        BY <1>1 DEF Count
    <3> QED
        BY <1>1, <1>5, <3>1, <3>4, <3>5, <3>6 DEF Reads, ReadsPast, ReadsOneTime
  <2> QED
      BY <2>2, <2>3
<1>8. Reads'
    BY <1>1, <1>7 DEF Reads
<1> QED
    BY <1>4, <1>6, <1>8 DEF ClockInv

(* An update begins, or the code finds the clock between two.               *)
LEMMA QuietStep ==
  ASSUME ClockInv, time' = time, mode' = mode, registers' = registers, result' = result,
         began' = began, ended' = ended, torn' = torn, pc' = pc \/ (pc = "wait" /\ pc' = "read1")
  PROVE  ClockInv'
<1>1. Count(pc') = Count(pc) /\ (pc' \in Over <=> pc \in Over) /\ (pc' = "done" <=> pc = "done")
    BY DEF Count, Over
<1>2. DecodedOf(registers)' = DecodedOf(registers)
    BY DEF DecodedOf, RawOf, Clock!HourOf, Clock!Hour24
<1>3. Now' = Now
    BY <1>1 DEF Now
<1>4. Types'
  <2>1. pc' \in Places
      BY DEF ClockInv, Types, Places
  <2>2. Clock!ValidTime(time)' /\ (mode \in Settings)' /\ (registers \in Registers)'
      BY DEF ClockInv, Types
  <2>3. (Count(pc) >= 1 => Clock!ValidTime(began))' /\ (pc \in Over => Clock!ValidTime(ended))'
      BY <1>1 DEF ClockInv, Types
  <2> QED
      BY <2>1, <2>2, <2>3 DEF Types
<1>5. Converted'
    BY <1>1, <1>2 DEF ClockInv, Converted, RawOf
<1>6. Reads'
    BY <1>1, <1>2, <1>3
    DEF ClockInv, Reads, ReadsPast, HourIsFine, ReadsOneTime, ReadFrom, Clock!Register,
        Clock!HourByte, Clock!Encode
<1> QED
    BY <1>4, <1>5, <1>6 DEF ClockInv

(* The n-th field is not later than the clock's, nor are those above it.    *)
LEMMA NextFieldNotLater ==
  ASSUME NEW n \in 1..6, NEW a \in Times, NEW b \in Times, NEW t \in Times,
         NotLater(n - 1, a, t),
         \A k \in 1..(n - 1) : b[Clock!ReadOrder[k]] = a[Clock!ReadOrder[k]],
         b[Clock!ReadOrder[n]] <= t[Clock!ReadOrder[n]]
  PROVE  NotLater(n, b, t)
<1>1. /\ a["Year"] \in Int /\ a["Month"] \in Int /\ a["Day"] \in Int
      /\ a["Hour"] \in Int /\ a["Minute"] \in Int /\ a["Second"] \in Int
    BY FieldsOfTimes
<1>2. /\ b["Year"] \in Int /\ b["Month"] \in Int /\ b["Day"] \in Int
      /\ b["Hour"] \in Int /\ b["Minute"] \in Int /\ b["Second"] \in Int
    BY FieldsOfTimes
<1>3. /\ t["Year"] \in Int /\ t["Month"] \in Int /\ t["Day"] \in Int
      /\ t["Hour"] \in Int /\ t["Minute"] \in Int /\ t["Second"] \in Int
    BY FieldsOfTimes
<1>4. /\ Clock!ReadOrder[1] = "Year" /\ Clock!ReadOrder[2] = "Month"
      /\ Clock!ReadOrder[3] = "Day" /\ Clock!ReadOrder[4] = "Hour"
      /\ Clock!ReadOrder[5] = "Minute" /\ Clock!ReadOrder[6] = "Second"
    BY DEF Clock!ReadOrder
<1>5. /\ n >= 2 => b["Year"] = a["Year"]
      /\ n >= 3 => b["Month"] = a["Month"]
      /\ n >= 4 => b["Day"] = a["Day"]
      /\ n >= 5 => b["Hour"] = a["Hour"]
      /\ n >= 6 => b["Minute"] = a["Minute"]
    BY <1>4
<1>6. CASE n = 1
    BY <1>2, <1>3, <1>4, <1>6 DEF NotLater
<1>7. CASE n = 2
    BY <1>1, <1>2, <1>3, <1>4, <1>5, <1>7 DEF NotLater
<1>8. CASE n = 3
    BY <1>1, <1>2, <1>3, <1>4, <1>5, <1>8 DEF NotLater
<1>9. CASE n = 4
    BY <1>1, <1>2, <1>3, <1>4, <1>5, <1>9 DEF NotLater
<1>10. CASE n = 5
    BY <1>1, <1>2, <1>3, <1>4, <1>5, <1>10 DEF NotLater
<1>11. CASE n = 6
    BY <1>1, <1>2, <1>3, <1>4, <1>5, <1>11 DEF NotLater
<1> QED
    BY <1>6, <1>7, <1>8, <1>9, <1>10, <1>11

(* A register is read.                                                      *)
LEMMA ReadRegisterStep ==
  ASSUME ClockInv, NEW n \in 1..6, Clock!ReadRegister(n)
  PROVE  ClockInv'
<1> DEFINE F == Clock!ReadOrder[n]
           R == registers'
<1>1. /\ pc = Clock!ReadPc[n]
      /\ pc' = IF n < 6 THEN Clock!ReadPc[n + 1] ELSE "convert"
      /\ began' = IF n = 1 THEN time ELSE began
      /\ ended' = IF n = 6 THEN time ELSE ended
      /\ torn' = (torn \/ updating)
      /\ UNCHANGED <<time, mode, updating, updates, result>>
    BY DEF Clock!ReadRegister, Clock!clock
<1>2. PICK v \in IF updating THEN {0, 127} ELSE {Clock!Register(time, F)} :
        registers' = [registers EXCEPT ![F] = v]
    BY DEF Clock!ReadRegister
<1>3. /\ Clock!ValidTime(time) /\ mode \in Settings /\ registers \in Registers
      /\ pc \in Places
      /\ (Count(pc) >= 1 => Clock!ValidTime(began)) /\ (pc \in Over => Clock!ValidTime(ended))
    BY DEF ClockInv, Types
<1>4. /\ pc \notin Over /\ Count(pc) = n - 1 /\ Count(pc') = n
      /\ (pc' \in Over <=> n = 6) /\ pc' \in Places /\ pc' # "done"
  <2>1. /\ Clock!ReadPc[1] = "read1" /\ Clock!ReadPc[2] = "read2"
        /\ Clock!ReadPc[3] = "read3" /\ Clock!ReadPc[4] = "read4"
        /\ Clock!ReadPc[5] = "read5" /\ Clock!ReadPc[6] = "read6"
      BY DEF Clock!ReadPc
  <2>2. \/ pc = "read1" /\ pc' = "read2" /\ n = 1
        \/ pc = "read2" /\ pc' = "read3" /\ n = 2
        \/ pc = "read3" /\ pc' = "read4" /\ n = 3
        \/ pc = "read4" /\ pc' = "read5" /\ n = 4
        \/ pc = "read5" /\ pc' = "read6" /\ n = 5
        \/ pc = "read6" /\ pc' = "convert" /\ n = 6
    <3>1. n = 1 \/ n = 2 \/ n = 3 \/ n = 4 \/ n = 5 \/ n = 6
        OBVIOUS
    <3>2. n = 1 => n + 1 = 2
        OBVIOUS
    <3> QED
        BY <1>1, <2>1, <3>1, <3>2
  <2>3. Count(pc) = n - 1 /\ Count(pc') = n
      BY <2>2 DEF Count, Over
  <2> QED
      BY <2>2, <2>3 DEF Over, Places
<1>5. F \in Clock!Fields
  <2>1. n = 1 \/ n = 2 \/ n = 3 \/ n = 4 \/ n = 5 \/ n = 6
      OBVIOUS
  <2> QED
      BY <2>1 DEF Clock!ReadOrder, Clock!Fields
<1>6. R[F] = v /\ \A f \in Clock!Fields \ {F} : R[f] = registers[f]
    BY <1>2, <1>3, <1>5 DEF Registers
<1>7. \A k \in 1..(n - 1) : Clock!ReadOrder[k] \in Clock!Fields \ {F}
  <2>1. n = 1 \/ n = 2 \/ n = 3 \/ n = 4 \/ n = 5 \/ n = 6
      OBVIOUS
  <2> QED
      BY <2>1 DEF Clock!ReadOrder, Clock!Fields
<1> HIDE DEF F
<1>8. ~updating => R[F] = Clock!Register(time, F)
    BY <1>2, <1>6
<1>9. R \in Registers
  <2>1. v \in Nat
    <3>1. CASE updating
        BY <1>2, <3>1
    <3>2. CASE ~updating
        BY <1>3, <1>5, <1>6, <1>8, <3>2, FieldDecodes
    <3> QED
        BY <3>1, <3>2
  <2> QED
      BY <1>2, <1>3, <2>1 DEF Registers
<1>10. Types'
  <2>1. Clock!ValidTime(time)' /\ (mode \in Settings)'
      BY <1>1, <1>3 DEF Clock!ValidTime, Clock!DaysIn, Clock!Leap, Clock!Fields
  <2>2. Clock!ValidTime(began)'
    <3>1. CASE n = 1
        BY <1>1, <1>3, <3>1
    <3>2. CASE n # 1
        BY <1>1, <1>3, <1>4, <3>2
    <3> QED
        BY <3>1, <3>2
  <2>3. pc' \in Over => Clock!ValidTime(ended)'
      BY <1>1, <1>3, <1>4
  <2> QED
      BY <1>4, <1>9, <2>1, <2>2, <2>3 DEF Types
<1>11. Converted'
    BY <1>4 DEF Converted
<1>12. ASSUME ~torn' PROVE Reads'
  <2>1. ~torn /\ ~updating /\ R[F] = Clock!Register(time, F)
      BY <1>1, <1>8, <1>12
  <2>2. Now = time /\ Now' = time
      BY <1>1, <1>4 DEF Now
  <2>3. /\ ReadsPast(registers, n - 1, time)
        /\ n - 1 >= 1 => ReadsOneTime(registers, n - 1, time)
      BY <1>4, <2>1, <2>2 DEF ClockInv, Reads
  <2>4. DecodedOf(registers)' = DecodedOf(R)
      BY <1>1 DEF DecodedOf, RawOf, Clock!HourOf, Clock!Hour24
  <2>5. ASSUME NEW f \in Clock!Fields \ {F}
        PROVE  DecodedOf(R)[f] = DecodedOf(registers)[f]
    <3>1. R[f] = registers[f]
        BY <1>6
    <3> QED
        BY <3>1 DEF DecodedOf, RawOf
  <2>6. ASSUME HourIsFine(R, n)
        PROVE  NotLater(n, DecodedOf(R), time)
    <3>1. DecodedOf(R) \in Times /\ DecodedOf(registers) \in Times /\ time \in Times
        BY <1>3, <1>9, DecodedIsTime, ValidIsTime
    <3>2. HourIsFine(registers, n - 1)
      <4>1. CASE n <= 4
          BY <4>1 DEF HourIsFine
      <4>2. CASE n > 4
        <5>1. "Hour" \in Clock!Fields \ {F}
            BY <1>7, <4>2 DEF Clock!ReadOrder
        <5> QED
            BY <2>6, <2>5, <4>2, <5>1 DEF HourIsFine
      <4> QED
          BY <4>1, <4>2
    <3>3. NotLater(n - 1, DecodedOf(registers), time)
        BY <2>3, <3>2 DEF ReadsPast
    <3>4. \A k \in 1..(n - 1) :
            DecodedOf(R)[Clock!ReadOrder[k]] = DecodedOf(registers)[Clock!ReadOrder[k]]
        BY <1>7, <2>5
    <3>5. DecodedOf(R)[F] <= time[F]
      <4>1. time[F] \in Int
          BY <1>5, <3>1 DEF Times
      <4>2. CASE F \notin {"Year", "Hour"}
          BY <1>3, <1>5, <2>1, <4>1, <4>2, FieldDecodes
      <4>3. CASE F = "Year"
          BY <1>3, <1>5, <2>1, <4>3, FieldDecodes
      <4>4. CASE F = "Hour"
        <5>1. DecodedOf(R)[F] = IF mode.hours24 \/ time["Hour"] % 12 # 0 THEN time["Hour"]
                                ELSE IF time["Hour"] = 0 THEN 12 ELSE 0
            BY <1>3, <1>5, <2>1, <4>4, FieldDecodes
        <5>2. time["Hour"] \in 0..23
            BY <1>3 DEF Clock!ValidTime
        <5>3. n = 4
          <6>1. n = 1 \/ n = 2 \/ n = 3 \/ n = 4 \/ n = 5 \/ n = 6
              OBVIOUS
          <6> QED
              BY <4>4, <6>1 DEF F, Clock!ReadOrder
        <5>4. mode.hours24 \/ DecodedOf(R)[F] # 12
            BY <2>6, <4>4, <5>3 DEF HourIsFine
        <5> QED
            BY <4>4, <5>1, <5>2, <5>4
      <4> QED
          BY <4>2, <4>3, <4>4
    <3> QED
        BY <3>1, <3>3, <3>4, <3>5, NextFieldNotLater DEF F
  <2>7. ReadsOneTime(registers, n, time)'
    <3>1. ReadFrom(registers, n, time)' <=> ReadFrom(R, n, time)
        BY <1>1 DEF ReadFrom, Clock!Register, Clock!HourByte, Clock!Encode
    <3>2. CASE n = 1
        BY <1>1, <2>1, <3>1, <3>2 DEF ReadsOneTime, ReadFrom, F
    <3>3. CASE n # 1
      <4>1. began' = began /\ time' = time
          BY <1>1, <3>3
      <4>2. CASE Later(began, time)
          BY <4>1, <4>2 DEF ReadsOneTime, Later
      <4>3. CASE began = time /\ ReadFrom(registers, n - 1, time)
        <5>1. \A k \in 1..n : k = n \/ k \in 1..(n - 1)
            OBVIOUS
        <5>2. ReadFrom(R, n, time)
            BY <1>6, <1>7, <2>1, <4>3, <5>1 DEF ReadFrom, F
        <5> QED
            BY <3>1, <4>1, <4>3, <5>2 DEF ReadsOneTime
      <4> QED
          BY <2>3, <3>3, <4>2, <4>3 DEF ReadsOneTime
    <3> QED
        BY <3>2, <3>3
  <2>8. Reads'
    <3>1. HourIsFine(registers, n)' => HourIsFine(R, n)
        BY <1>1, <2>4 DEF HourIsFine
    <3>2. ReadsPast(registers, n, time)'
        BY <1>1, <2>4, <2>6, <3>1 DEF ReadsPast
    <3>3. Count(pc)' = n /\ Now' = time'
        BY <1>1, <1>4, <2>2
    <3> QED
        BY <2>7, <3>2, <3>3 DEF Reads, ReadsPast, ReadsOneTime, ReadFrom
  <2> QED
      BY <2>8
<1>13. Reads'
    BY <1>12 DEF Reads
<1> QED
    BY <1>10, <1>11, <1>13 DEF ClockInv

(* The registers become the date and time.                                  *)
LEMMA ConvertStep == ASSUME ClockInv, Clock!Convert PROVE ClockInv'
<1>1. /\ pc = "convert" /\ pc' = "done"
      /\ UNCHANGED <<time, mode, updating, updates, registers, began, ended, torn>>
    BY DEF Clock!Convert, Clock!clock
<1>2. Count(pc) = 6 /\ Count(pc') = 6 /\ pc \in Over /\ pc' \in Over /\ pc' \in Places
    BY <1>1 DEF Count, Over, Places
<1>3. DecodedOf(registers)' = DecodedOf(registers)
    BY <1>1 DEF DecodedOf, RawOf, Clock!HourOf, Clock!Hour24
<1>4. Types'
    BY <1>1, <1>2 DEF ClockInv, Types, Clock!ValidTime, Clock!DaysIn, Clock!Leap, Clock!Fields
<1>5. Reads'
    BY <1>1, <1>2, <1>3
    DEF ClockInv, Reads, Now, ReadsPast, HourIsFine, ReadsOneTime, ReadFrom, Clock!Register,
        Clock!HourByte, Clock!Encode
<1>6. Converted'
  <2> DEFINE r == [f \in Clock!Fields |-> IF f = "Hour" THEN Clock!HourOf(registers[f])
                                          ELSE IF mode.binary THEN registers[f]
                                          ELSE Clock!bcd_to_binary(registers[f])]
  <2>1. result' = [f \in Clock!Fields \cup {"Weekday"} |->
                     CASE f = "Year" -> Clock!FullYear(r["Year"])
                       [] f = "Weekday" -> Clock!weekday(r["Day"], r["Month"], r["Year"])
                       [] OTHER -> r[f]]
      BY DEF Clock!Convert
  <2>2. /\ \A f \in Clock!Fields \ {"Hour"} : r[f] = RawOf(registers, f)
        /\ r["Hour"] = Clock!HourOf(registers["Hour"])
      BY DEF RawOf, Clock!Fields
  <2> HIDE DEF r
  <2>3. \A f \in Clock!Fields : result'[f] = DecodedOf(registers)[f]
      BY <2>1, <2>2 DEF DecodedOf, Clock!Fields
  <2>4. result'["Weekday"] = Clock!weekday(RawOf(registers, "Day"), RawOf(registers, "Month"),
                                           RawOf(registers, "Year"))
      BY <2>1, <2>2 DEF Clock!Fields
  <2>5. RawOf(registers, "Day")' = RawOf(registers, "Day")
        /\ RawOf(registers, "Month")' = RawOf(registers, "Month")
        /\ RawOf(registers, "Year")' = RawOf(registers, "Year")
      BY <1>1 DEF RawOf
  <2> QED
      BY <1>1, <1>3, <2>3, <2>4, <2>5 DEF Converted
<1> QED
    BY <1>4, <1>5, <1>6 DEF ClockInv

LEMMA ClockInductive == ASSUME ClockInv, [Clock!Next]_(Clock!vars) PROVE ClockInv'
<1>1. CASE Clock!BeginUpdate
  <2>1. /\ pc' = pc /\ time' = time /\ mode' = mode /\ registers' = registers
        /\ result' = result /\ began' = began /\ ended' = ended /\ torn' = torn
      BY <1>1 DEF Clock!BeginUpdate
  <2> QED
      BY <2>1, QuietStep
<1>2. CASE Clock!EndUpdate
    BY <1>2, EndUpdateStep
<1>3. CASE Clock!WaitForUpdate
    BY <1>3, QuietStep DEF Clock!WaitForUpdate, Clock!clock
<1>4. CASE Clock!Convert
    BY <1>4, ConvertStep
<1>5. ASSUME NEW n \in 1..6, Clock!ReadRegister(n) PROVE ClockInv'
    BY <1>5, ReadRegisterStep
<1>6. CASE UNCHANGED Clock!vars
  <2>1. /\ pc' = pc /\ time' = time /\ mode' = mode /\ registers' = registers
        /\ result' = result /\ began' = began /\ ended' = ended /\ torn' = torn
      BY <1>6 DEF Clock!vars
  <2> QED
      BY <2>1, QuietStep
<1> QED
    BY <1>1, <1>2, <1>3, <1>4, <1>5, <1>6 DEF Clock!Next

-----------------------------------------------------------------------------
(* What the read returns *)

LEMMA NotLaterIsNotAfter ==
  ASSUME NEW a \in Times, NEW b \in Times, NotLater(6, a, b)
  PROVE  Clock!NotAfter(a, b)
<1>1. /\ a["Year"] \in Int /\ a["Month"] \in Int /\ a["Day"] \in Int
      /\ a["Hour"] \in Int /\ a["Minute"] \in Int /\ a["Second"] \in Int
    BY FieldsOfTimes
<1>2. /\ b["Year"] \in Int /\ b["Month"] \in Int /\ b["Day"] \in Int
      /\ b["Hour"] \in Int /\ b["Minute"] \in Int /\ b["Second"] \in Int
    BY FieldsOfTimes
<1> DEFINE Less(n) == /\ a[Clock!Order[n]] < b[Clock!Order[n]]
                      /\ \A k \in 1..n - 1 : a[Clock!Order[k]] = b[Clock!Order[k]]
<1>3. /\ Clock!Order[1] = "Year" /\ Clock!Order[2] = "Month"
      /\ Clock!Order[3] = "Day" /\ Clock!Order[4] = "Hour"
      /\ Clock!Order[5] = "Minute" /\ Clock!Order[6] = "Second"
    BY DEF Clock!Order
<1>4. CASE a["Year"] < b["Year"]
  <2>1. Less(1)
      BY <1>3, <1>4
  <2> QED
      BY <2>1 DEF Clock!NotAfter
<1>5. CASE a["Year"] = b["Year"] /\ a["Month"] < b["Month"]
  <2>1. Less(2)
      BY <1>3, <1>5
  <2> QED
      BY <2>1 DEF Clock!NotAfter
<1>6. CASE a["Year"] = b["Year"] /\ a["Month"] = b["Month"] /\ a["Day"] < b["Day"]
  <2>1. Less(3)
      BY <1>3, <1>6
  <2> QED
      BY <2>1 DEF Clock!NotAfter
<1>7. CASE /\ a["Year"] = b["Year"] /\ a["Month"] = b["Month"] /\ a["Day"] = b["Day"]
           /\ a["Hour"] < b["Hour"]
  <2>1. Less(4)
      BY <1>3, <1>7
  <2> QED
      BY <2>1 DEF Clock!NotAfter
<1>8. CASE /\ a["Year"] = b["Year"] /\ a["Month"] = b["Month"] /\ a["Day"] = b["Day"]
           /\ a["Hour"] = b["Hour"] /\ a["Minute"] < b["Minute"]
  <2>1. Less(5)
      BY <1>3, <1>8
  <2> QED
      BY <2>1 DEF Clock!NotAfter
<1>9. CASE /\ a["Year"] = b["Year"] /\ a["Month"] = b["Month"] /\ a["Day"] = b["Day"]
           /\ a["Hour"] = b["Hour"] /\ a["Minute"] = b["Minute"] /\ a["Second"] < b["Second"]
  <2>1. Less(6)
      BY <1>3, <1>9
  <2> QED
      BY <2>1 DEF Clock!NotAfter
<1>10. CASE /\ a["Year"] = b["Year"] /\ a["Month"] = b["Month"] /\ a["Day"] = b["Day"]
            /\ a["Hour"] = b["Hour"] /\ a["Minute"] = b["Minute"] /\ a["Second"] = b["Second"]
  <2>1. \A f \in Clock!Fields : a[f] = b[f]
      BY <1>10 DEF Clock!Fields
  <2> QED
      BY <2>1 DEF Clock!NotAfter
<1> QED
    BY <1>1, <1>2, <1>4, <1>5, <1>6, <1>7, <1>8, <1>9, <1>10 DEF NotLater

LEMMA ClockIsNeverAhead == ClockInv => Clock!NeverAhead
<1> SUFFICES ASSUME ClockInv, Clock!Done, mode.hours24 \/ result.Hour # 12
             PROVE  Clock!NotAfter(result, ended)
    BY DEF Clock!NeverAhead
<1> DEFINE D == DecodedOf(registers)
<1>1. pc = "done" /\ ~torn /\ Count(pc) = 6 /\ pc \in Over
    BY DEF Clock!Done, Count, Over
<1>2. \A f \in Clock!Fields : result[f] = D[f]
    BY <1>1 DEF ClockInv, Converted
<1>3. mode.hours24 \/ D["Hour"] # 12
    BY <1>2 DEF Clock!Fields
<1>4. NotLater(6, D, ended)
    BY <1>1, <1>3 DEF ClockInv, Reads, ReadsPast, Now, HourIsFine
<1>5. D \in Times /\ ended \in Times
    BY <1>1, DecodedIsTime, ValidIsTime DEF ClockInv, Types
<1> HIDE DEF D
<1>6. Clock!NotAfter(D, ended)
    BY <1>4, <1>5, NotLaterIsNotAfter
<1>7. \A k \in 1..6 : result[Clock!Order[k]] = D[Clock!Order[k]]
    BY <1>2 DEF Clock!Order, Clock!Fields
<1>8. CASE \A f \in Clock!Fields : D[f] = ended[f]
    BY <1>2, <1>8 DEF Clock!NotAfter
<1>9. ASSUME NEW n \in 1..6, D[Clock!Order[n]] < ended[Clock!Order[n]],
             \A k \in 1..n - 1 : D[Clock!Order[k]] = ended[Clock!Order[k]]
      PROVE  Clock!NotAfter(result, ended)
    BY <1>7, <1>9 DEF Clock!NotAfter
<1> QED
    BY <1>6, <1>8, <1>9 DEF Clock!NotAfter

-----------------------------------------------------------------------------
(* The calendar *)

(* In the years the code knows every fourth one has a day more.             *)
CodeYears == 1970..2100
ToYear == [y \in CodeYears |-> 365 * (y - 1970) + (y - 1969) \div 4]
YearStep(f) ==
  [y \in CodeYears |->
     IF y = 1970 THEN 0 ELSE f[y - 1] + (IF Clock!Leap(y - 1) THEN 366 ELSE 365)]

LEMMA LeapYears ==
  ASSUME NEW y \in Int, 1970 <= y, y <= 2099 PROVE Clock!Leap(y) <=> y % 4 = 0
  BY DEF Clock!Leap

LEMMA ToYearSteps == ToYear = YearStep(ToYear)
<1>1. ASSUME NEW y \in Int, 1971 <= y, y <= 2100
      PROVE  ToYear[y] = ToYear[y - 1] + (IF Clock!Leap(y - 1) THEN 366 ELSE 365)
  <2>1. y - 1 \in CodeYears /\ y \in CodeYears
      BY <1>1 DEF CodeYears
  <2>2. Clock!Leap(y - 1) <=> (y - 1) % 4 = 0
      BY <1>1, LeapYears
  <2>3. /\ ToYear[y] = 365 * (y - 1970) + (y - 1969) \div 4
        /\ ToYear[y - 1] = 365 * ((y - 1) - 1970) + ((y - 1) - 1969) \div 4
      BY <2>1 DEF ToYear
  <2> QED
      BY <2>2, <2>3
<1>2. ToYear[1970] = 0
  <2>1. 1970 \in CodeYears
      BY DEF CodeYears
  <2> QED
      BY <2>1 DEF ToYear
<1>3. ASSUME NEW y \in CodeYears PROVE ToYear[y] = YearStep(ToYear)[y]
  <2>1. CASE y = 1970
      BY <1>2, <2>1 DEF YearStep
  <2>2. CASE y # 1970
    <3>1. y \in Int /\ 1971 <= y /\ y <= 2100
        BY <2>2 DEF CodeYears
    <3> QED
        BY <1>1, <2>2, <3>1 DEF YearStep
  <2> QED
      BY <2>1, <2>2
<1> QED
    BY <1>3 DEF ToYear, YearStep

LEMMA DaysToYearSteps == Clock!DaysToYear = YearStep(Clock!DaysToYear)
<1>1. Clock!DaysToYear = CHOOSE f : f = YearStep(f)
    BY DEF Clock!DaysToYear, YearStep, CodeYears
<1> QED
    BY <1>1, ToYearSteps, Zenon

LEMMA DaysToYearIs ==
  ASSUME NEW y \in Int, 1970 <= y, y <= 2100
  PROVE  Clock!DaysToYear[y] = 365 * (y - 1970) + (y - 1969) \div 4
<1> DEFINE T == {n \in Nat : n <= 130 /\ Clock!DaysToYear[1970 + n] # ToYear[1970 + n]}
<1>1. ASSUME T # {} PROVE FALSE
  <2>1. T \in SUBSET Nat
      OBVIOUS
  <2> HIDE DEF T
  <2>2. PICK n \in T : \A k \in T : n <= k
      BY <1>1, <2>1, LeastNumber
  <2> USE DEF T
  <2>3. n \in Nat /\ n <= 130 /\ Clock!DaysToYear[1970 + n] # ToYear[1970 + n]
      BY <2>2
  <2>4. n # 0
    <3>1. 1970 \in CodeYears
        BY DEF CodeYears
    <3>2. Clock!DaysToYear[1970] = 0 /\ ToYear[1970] = 0
        BY <3>1, DaysToYearSteps, ToYearSteps DEF YearStep
    <3> QED
        BY <2>3, <3>2
  <2>5. Clock!DaysToYear[1970 + (n - 1)] = ToYear[1970 + (n - 1)]
      BY <2>2, <2>3, <2>4
  <2>6. 1970 + n \in CodeYears /\ 1970 + n # 1970 /\ (1970 + n) - 1 = 1970 + (n - 1)
      BY <2>3, <2>4 DEF CodeYears
  <2>7. \A f : YearStep(f)[1970 + n] =
                 f[1970 + (n - 1)] + (IF Clock!Leap(1970 + (n - 1)) THEN 366 ELSE 365)
      BY <2>6 DEF YearStep
  <2> QED
      BY <2>3, <2>5, <2>7, DaysToYearSteps, ToYearSteps
<1>2. y - 1970 \in Nat /\ y - 1970 <= 130 /\ 1970 + (y - 1970) = y
    OBVIOUS
<1>3. y - 1970 \notin T
  <2> HIDE DEF T
  <2> QED
      BY <1>1
<1>4. y \in CodeYears /\ Clock!DaysToYear[y] = ToYear[y]
    BY <1>2, <1>3 DEF CodeYears
<1> QED
    BY <1>4 DEF ToYear

(* The days before a month of a year that is no leap year.                  *)
BeforeMonth == <<0, 31, 59, 90, 120, 151, 181, 212, 243, 273, 304, 334>>
ToMonth(y) == [m \in 1..12 |-> Clock!DaysToYear[y] + BeforeMonth[m]
                                 + (IF m > 2 /\ Clock!Leap(y) THEN 1 ELSE 0)]

MonthStep(y, f) == [m \in 1..12 |-> IF m = 1 THEN Clock!DaysToYear[y]
                                    ELSE f[m - 1] + Clock!DaysIn(m - 1, y)]

LEMMA MonthsChosen ==
  ASSUME NEW y, NEW g, g = MonthStep(y, g), NEW t, t = CHOOSE f : f = MonthStep(y, f)
  PROVE  t = MonthStep(y, t)
  BY Zenon

LEMMA DaysBeforeIs ==
  ASSUME NEW y \in Int, 1970 <= y, y <= 2100, NEW m \in 1..12
  PROVE  Clock!DaysBefore(m, y) = ToMonth(y)[m]
<1> DEFINE To == CHOOSE f : f = MonthStep(y, f)
<1>1. Clock!DaysBefore(m, y) = To[m]
    BY DEF Clock!DaysBefore, MonthStep
<1>2. Clock!DaysToYear[y] \in Int
    BY DaysToYearIs
<1>3. ASSUME NEW k \in 2..12
      PROVE  ToMonth(y)[k] = ToMonth(y)[k - 1] + Clock!DaysIn(k - 1, y)
  <2>1. BeforeMonth[k] = BeforeMonth[k - 1] +
          (IF k - 1 = 2 THEN 28 ELSE IF k - 1 \in {4, 6, 9, 11} THEN 30 ELSE 31)
      BY DEF BeforeMonth
  <2>2. BeforeMonth[k] \in Int /\ BeforeMonth[k - 1] \in Int
      BY DEF BeforeMonth
  <2>3. ToMonth(y)[k] = Clock!DaysToYear[y] + BeforeMonth[k]
                                 + (IF k > 2 /\ Clock!Leap(y) THEN 1 ELSE 0)
      BY DEF ToMonth
  <2>4. ToMonth(y)[k - 1] = Clock!DaysToYear[y] + BeforeMonth[k - 1]
                                 + (IF k - 1 > 2 /\ Clock!Leap(y) THEN 1 ELSE 0)
      BY DEF ToMonth
  <2> QED
      BY <1>2, <2>1, <2>2, <2>3, <2>4 DEF Clock!DaysIn
<1>4. ToMonth(y)[1] = Clock!DaysToYear[y]
    BY <1>2 DEF ToMonth, BeforeMonth
<1>5. ToMonth(y) = MonthStep(y, ToMonth(y))
  <2>1. \A k \in 1..12 : ToMonth(y)[k] = MonthStep(y, ToMonth(y))[k]
      BY <1>3, <1>4 DEF MonthStep
  <2> QED
      BY <2>1 DEF ToMonth, MonthStep
<1>6. To = MonthStep(y, To)
    BY <1>5, MonthsChosen
<1> HIDE DEF To
<1>7. To[1] = ToMonth(y)[1]
    BY <1>4, <1>6 DEF MonthStep
<1>8. ASSUME NEW k \in 2..12 PROVE To[k] = To[k - 1] + Clock!DaysIn(k - 1, y)
  <2>1. MonthStep(y, To)[k] = To[k - 1] + Clock!DaysIn(k - 1, y)
      BY DEF MonthStep
  <2> QED
      BY <1>6, <2>1
<1>9. /\ To[2] = ToMonth(y)[2] /\ To[3] = ToMonth(y)[3] /\ To[4] = ToMonth(y)[4]
      /\ To[5] = ToMonth(y)[5] /\ To[6] = ToMonth(y)[6] /\ To[7] = ToMonth(y)[7]
      /\ To[8] = ToMonth(y)[8] /\ To[9] = ToMonth(y)[9] /\ To[10] = ToMonth(y)[10]
      /\ To[11] = ToMonth(y)[11] /\ To[12] = ToMonth(y)[12]
  <2>1. \A k \in 2..12 : To[k - 1] = ToMonth(y)[k - 1] => To[k] = ToMonth(y)[k]
      BY <1>3, <1>8
  <2>2. To[2] = ToMonth(y)[2] /\ To[3] = ToMonth(y)[3] /\ To[4] = ToMonth(y)[4]
      BY <1>7, <2>1
  <2>3. To[5] = ToMonth(y)[5] /\ To[6] = ToMonth(y)[6] /\ To[7] = ToMonth(y)[7]
      BY <2>1, <2>2
  <2>4. To[8] = ToMonth(y)[8] /\ To[9] = ToMonth(y)[9] /\ To[10] = ToMonth(y)[10]
      BY <2>1, <2>3
  <2>5. To[11] = ToMonth(y)[11] /\ To[12] = ToMonth(y)[12]
      BY <2>1, <2>4
  <2> QED
      BY <2>2, <2>3, <2>4, <2>5
<1>10. m = 1 \/ m = 2 \/ m = 3 \/ m = 4 \/ m = 5 \/ m = 6 \/ m = 7 \/ m = 8 \/ m = 9
       \/ m = 10 \/ m = 11 \/ m = 12
    OBVIOUS
<1> QED
    BY <1>1, <1>7, <1>9, <1>10

LEMMA DaysBeforeDate ==
  ASSUME NEW y \in Int, 2000 <= y, y <= 2069, NEW m \in 1..12
  PROVE  Clock!DaysBefore(m, y) =
           365 * (y - 1970) + (y - 1969) \div 4 + BeforeMonth[m]
             + (IF m > 2 /\ y % 4 = 0 THEN 1 ELSE 0)
<1>1. 1970 <= y /\ y <= 2100 /\ y <= 2099
    OBVIOUS
<1>2. Clock!DaysBefore(m, y) = ToMonth(y)[m]
    BY <1>1, DaysBeforeIs
<1>3. ToMonth(y)[m] = Clock!DaysToYear[y] + BeforeMonth[m]
                        + (IF m > 2 /\ Clock!Leap(y) THEN 1 ELSE 0)
    BY DEF ToMonth
<1>4. Clock!DaysToYear[y] = 365 * (y - 1970) + (y - 1969) \div 4
    BY <1>1, DaysToYearIs
<1>5. Clock!Leap(y) <=> y % 4 = 0
    BY <1>1, LeapYears
<1> QED
    BY <1>2, <1>3, <1>4, <1>5


(* The quotients of the code's formula are those of the months' days, up to *)
(* whole weeks.                                                             *)
LEMMA WeekdayIsCalendars ==
  ASSUME NEW y \in Int, 2000 <= y, y <= 2069, NEW m \in 1..12, NEW d \in Int,
         y = 2000 => m > 2
  PROVE  Clock!weekday(d, m, y % 100) = Clock!Weekday(d, m, y)
<1> DEFINE w == y - 2000
           c == (23 * m) \div 9
           p == BeforeMonth[m]
<1>1. w \in 0..69 /\ y % 100 = w /\ y = 2000 + w
    OBVIOUS
<1>2. Clock!DaysBefore(m, y) =
        365 * (y - 1970) + (y - 1969) \div 4 + p + (IF m > 2 /\ y % 4 = 0 THEN 1 ELSE 0)
    BY DaysBeforeDate
<1>3. p \in Int /\ c \in Int
    BY DEF BeforeMonth
<1>4. CASE m < 3
  <2>1. w >= 1
      BY <1>1, <1>4
  <2>2. Clock!weekday(d, m, w) = (c + (d + w) + 4 + (w - 1) \div 4) % 7
    <3>1. ~(w - 1 < 0) /\ (w - 1) \div 100 = 0 /\ (w - 1) \div 400 = 0
        BY <1>1, <2>1
    <3>2. (w - 1) \div 4 \in Int
        BY <1>1
    <3> HIDE DEF w
    <3> QED
        BY <1>1, <1>3, <1>4, <3>1, <3>2 DEF Clock!weekday
  <2>3. Clock!DaysBefore(m, y) + d + 3
          = (c + (d + w) + 4 + (w - 1) \div 4) + (364 * w + 10957 + p - c)
    <3>1. (y - 1969) \div 4 = 8 + (w - 1) \div 4
        BY <1>1, <2>1
    <3>2. (w - 1) \div 4 \in Int
        BY <1>1
    <3> QED
        BY <1>1, <1>2, <1>3, <1>4, <3>1, <3>2
  <2>4. \E k \in Int : 364 * w + 10957 + p - c = 7 * k
    <3>1. m = 1 \/ m = 2
        BY <1>4
    <3>2. p - c = 28 * (m - 1) - 2
        BY <3>1 DEF BeforeMonth
    <3> DEFINE k == 52 * w + 1565 + 4 * (m - 1)
    <3>3. k \in Int /\ 364 * w + 10957 + p - c = 7 * k
        BY <1>1, <1>3, <3>2
    <3> HIDE DEF k, w, p, c
    <3> QED
        BY <3>3
  <2>5. (w - 1) \div 4 \in Int
      BY <1>1
  <2> HIDE DEF w, c, p
  <2> QED
      BY <1>1, <1>3, <2>2, <2>3, <2>4, <2>5 DEF Clock!Weekday
<1>5. CASE m >= 3
  <2>1. Clock!weekday(d, m, w) = (c + (d + (w - 2)) + 4 + w \div 4) % 7
    <3>1. ~(w < 0) /\ w \div 100 = 0 /\ w \div 400 = 0
        BY <1>1
    <3>2. w \div 4 \in Int
        BY <1>1
    <3> HIDE DEF w
    <3> QED
        BY <1>1, <1>3, <1>5, <3>1, <3>2 DEF Clock!weekday
  <2>2. Clock!DaysBefore(m, y) + d + 3
          = (c + (d + (w - 2)) + 4 + w \div 4) + (364 * w + 10959 + p - c)
    <3>1. (y - 1969) \div 4 + (IF y % 4 = 0 THEN 1 ELSE 0) = 8 + w \div 4
        BY <1>1
    <3>2. w \div 4 \in Int
        BY <1>1
    <3> QED
        BY <1>1, <1>2, <1>3, <1>5, <3>1, <3>2
  <2>3. \E k \in Int : 364 * w + 10959 + p - c = 7 * k
    <3>1. m = 3 \/ m = 4 \/ m = 5 \/ m = 6 \/ m = 7 \/ m = 8 \/ m = 9 \/ m = 10 \/ m = 11
          \/ m = 12
        BY <1>5
    <3>2. p - c = 28 * (m - 3) + 52
        BY <3>1 DEF BeforeMonth
    <3> DEFINE k == 52 * w + 1573 + 4 * (m - 3)
    <3>3. k \in Int /\ 364 * w + 10959 + p - c = 7 * k
        BY <1>1, <1>3, <3>2
    <3> HIDE DEF k, w, p, c
    <3> QED
        BY <3>3
  <2>4. w \div 4 \in Int
      BY <1>1
  <2> HIDE DEF w, c, p
  <2> QED
      BY <1>1, <1>3, <2>1, <2>2, <2>3, <2>4 DEF Clock!Weekday
<1> QED
    BY <1>4, <1>5

LEMMA ClockIsRead == ClockInv => Clock!ReadsTheClock
<1> SUFFICES ASSUME ClockInv, Clock!Done, began = ended, ended.Year <= 2069
             PROVE  /\ \A f \in Clock!Fields :
                         (f = "Hour" => ~Clock!NoonOrMidnight(ended.Hour)) => result[f] = ended[f]
                    /\ Clock!NotAfter(Clock!MarchOf2000, ended) =>
                         result.Weekday = Clock!Weekday(ended.Day, ended.Month, ended.Year)
    BY DEF Clock!ReadsTheClock
<1> DEFINE r == registers
<1>1. pc = "done" /\ ~torn /\ Count(pc) = 6 /\ pc \in Over
    BY DEF Clock!Done, Count, Over
<1>2. Clock!ValidTime(ended) /\ ended \in Times /\ mode \in Settings
    BY <1>1, ValidIsTime DEF ClockInv, Types
<1>3. ReadFrom(r, 6, ended)
  <2>1. ReadsOneTime(r, 6, ended)
      BY <1>1 DEF ClockInv, Reads, Now
  <2> QED
      BY <1>2, <2>1, LaterIrreflexive DEF ReadsOneTime
<1>4. ASSUME NEW f \in Clock!Fields PROVE r[f] = Clock!Register(ended, f)
  <2>1. \E k \in 1..6 : f = Clock!ReadOrder[k]
    <3>1. \/ f = "Year" \/ f = "Month" \/ f = "Day" \/ f = "Hour" \/ f = "Minute"
          \/ f = "Second"
        BY DEF Clock!Fields
    <3>2. /\ Clock!ReadOrder[1] = "Year" /\ Clock!ReadOrder[2] = "Month"
          /\ Clock!ReadOrder[3] = "Day" /\ Clock!ReadOrder[4] = "Hour"
          /\ Clock!ReadOrder[5] = "Minute" /\ Clock!ReadOrder[6] = "Second"
        BY DEF Clock!ReadOrder
    <3> QED
        BY <3>1, <3>2
  <2> QED
      BY <1>3, <2>1 DEF ReadFrom
<1>5. \A f \in Clock!Fields : result[f] = DecodedOf(r)[f]
    BY <1>1 DEF ClockInv, Converted
<1>6. ASSUME NEW f \in Clock!Fields, f = "Hour" => ~Clock!NoonOrMidnight(ended.Hour)
      PROVE  result[f] = ended[f]
  <2>1. CASE f \notin {"Year", "Hour"}
      BY <1>2, <1>4, <1>5, <2>1, FieldDecodes
  <2>2. CASE f = "Year"
      BY <1>2, <1>4, <1>5, <2>2, FieldDecodes
  <2>3. CASE f = "Hour"
    <3>1. mode.hours24 \/ ended["Hour"] % 12 # 0
        BY <1>6, <2>3 DEF Clock!NoonOrMidnight
    <3> QED
        BY <1>2, <1>4, <1>5, <2>3, <3>1, FieldDecodes
  <2> QED
      BY <2>1, <2>2, <2>3
<1>7. ASSUME Clock!NotAfter(Clock!MarchOf2000, ended)
      PROVE  result.Weekday = Clock!Weekday(ended.Day, ended.Month, ended.Year)
  <2>1. /\ "Day" \in Clock!Fields /\ "Month" \in Clock!Fields /\ "Year" \in Clock!Fields
      BY DEF Clock!Fields
  <2>2. /\ RawOf(r, "Day") = ended["Day"] /\ RawOf(r, "Month") = ended["Month"]
        /\ RawOf(r, "Year") = ended["Year"] % 100
    <3>1. RawOf(r, "Day") = ended["Day"]
        BY <1>2, <1>4, <2>1, FieldDecodes
    <3>2. RawOf(r, "Month") = ended["Month"]
        BY <1>2, <1>4, <2>1, FieldDecodes
    <3>3. RawOf(r, "Year") = ended["Year"] % 100
        BY <1>2, <1>4, <2>1, FieldDecodes
    <3> QED
        BY <3>1, <3>2, <3>3
  <2>3. result["Weekday"] = Clock!weekday(RawOf(r, "Day"), RawOf(r, "Month"), RawOf(r, "Year"))
      BY <1>1 DEF ClockInv, Converted
  <2>4. /\ ended["Year"] \in Nat /\ ended["Month"] \in 1..12 /\ ended["Day"] \in 1..31
    <3>1. Clock!DaysIn(ended["Month"], ended["Year"]) \in 28..31
        BY DEF Clock!DaysIn
    <3> QED
        BY <1>2, <3>1 DEF Clock!ValidTime, Clock!Fields
  <2>5. ended["Year"] >= 2000 /\ (ended["Year"] = 2000 => ended["Month"] > 2)
    <3> DEFINE a == Clock!MarchOf2000
    <3>1. a["Year"] = 2000 /\ a["Month"] = 3
        BY DEF Clock!MarchOf2000
    <3>2. /\ Clock!Order[1] = "Year" /\ Clock!Order[2] = "Month"
        BY DEF Clock!Order
    <3> HIDE DEF a
    <3>3. CASE \A f \in Clock!Fields : a[f] = ended[f]
        BY <2>1, <2>4, <3>1, <3>3
    <3>4. ASSUME NEW n \in 1..6, a[Clock!Order[n]] < ended[Clock!Order[n]],
                 \A k \in 1..n - 1 : a[Clock!Order[k]] = ended[Clock!Order[k]]
          PROVE  ended["Year"] >= 2000 /\ (ended["Year"] = 2000 => ended["Month"] > 2)
      <4>1. CASE n = 1
          BY <2>4, <3>1, <3>2, <3>4, <4>1
      <4>2. CASE n = 2
        <5>1. 1 \in 1..n - 1
            BY <4>2
        <5> QED
            BY <2>4, <3>1, <3>2, <3>4, <4>2, <5>1
      <4>3. CASE n >= 3
        <5>1. 1 \in 1..n - 1 /\ 2 \in 1..n - 1
            BY <4>3, SMTT(60)
        <5> QED
            BY <2>4, <3>1, <3>2, <3>4, <5>1
      <4> QED
          BY <4>1, <4>2, <4>3
    <3> QED
        BY <1>7, <3>3, <3>4 DEF Clock!NotAfter, a
  <2>6. ended["Year"] \in 2000..2069
      BY <2>4, <2>5, SMTT(60)
  <2> DEFINE y == ended["Year"]
             m == ended["Month"]
             d == ended["Day"]
  <2>7. Clock!weekday(d, m, y % 100) = Clock!Weekday(d, m, y)
    <3> HIDE DEF y, m, d
    <3>1. /\ y \in Int /\ 2000 <= y /\ y <= 2069
          /\ m \in 1..12 /\ d \in Int /\ (y = 2000 => m > 2)
        BY <2>4, <2>5, <2>6 DEF y, m, d
    <3> QED
        BY <3>1, WeekdayIsCalendars, SMTT(60)
  <2>8. result["Weekday"] = Clock!weekday(d, m, y % 100)
      BY <2>2, <2>3
  <2> QED
      BY <2>7, <2>8
<1> QED
    BY <1>6, <1>7

-----------------------------------------------------------------------------
(* What the loader finds *)

LEMMA FirstFound ==
  ASSUME NEW n \in Nat, NEW S \in SUBSET (1..n), S # {}
  PROVE  (CHOOSE k \in S : \A j \in S : k <= j) \in S
<1>1. S \in SUBSET Nat
    OBVIOUS
<1>2. \E k \in S : \A j \in S : k <= j
    BY <1>1, LeastNumber
<1> QED
    BY <1>2, Zenon

LEMMA MapFound ==
  ASSUME Loader!ValidTags(tags), Loader!MemMap # NULL
  PROVE  \E k \in DOMAIN tags : /\ tags[k].identifier = "memmap"
                                /\ Loader!Entries = tags[k].entries
<1> DEFINE S == {k \in DOMAIN tags : tags[k].identifier = "memmap"}
           f == CHOOSE k \in S : \A j \in S : k <= j
<1>1. Loader!MemMap = IF S = {} THEN NULL ELSE tags[f]
    BY DEF Loader!MemMap, Loader!stivale2_get_tag
<1>2. S # {}
    BY <1>1
<1>3. Len(tags) \in Nat /\ DOMAIN tags = 1..Len(tags)
    BY DEF Loader!ValidTags, Loader!IsList
<1>4. S \in SUBSET (1..Len(tags))
    BY <1>3
<1>5. f \in S
  <2> HIDE DEF S
  <2> QED
      BY <1>2, <1>3, <1>4, FirstFound
<1>6. Loader!Entries = tags[f].entries
  <2> HIDE DEF S, f
  <2> QED
      BY <1>1, <1>2 DEF Loader!Entries
<1> HIDE DEF f
<1> QED
    BY <1>5, <1>6

(* The entries that hold modules, and those whose handlers get the signal.  *)
Named(e) == Loader!get_section(e, "name")
Listable(k) == Loader!IsModule(Loader!Entries[k])
Chosen(k) == Loader!Executable(k) /\ Loader!Equal(Named(Loader!Entries[k]), Shell)

Possible == tags \in TagLists /\ Loader!MemMap # NULL

LEMMA EntriesAreList ==
  ASSUME Possible
  PROVE  Len(Loader!Entries) \in Nat /\ DOMAIN Loader!Entries = 1..Len(Loader!Entries)
<1>1. Loader!ValidTags(tags)
    BY TagListsAssumption DEF Possible
<1>2. PICK k \in DOMAIN tags : /\ tags[k].identifier = "memmap"
                               /\ Loader!Entries = tags[k].entries
    BY <1>1, MapFound DEF Possible
<1>3. Loader!IsList(tags[k].entries)
    BY <1>1, <1>2 DEF Loader!ValidTags
<1> QED
    BY <1>2, <1>3 DEF Loader!IsList

-----------------------------------------------------------------------------
(* The loader *)

Length == Len(Loader!Entries)
AllModules == {k \in 1..Length : Listable(k)}
Decided(k) == phase = "done" \/ (phase = "init" /\ k < entry)

InPhase ==
  /\ phase \in {"list", "init", "done", "fault"} /\ entry \in 1..(Length + 1)
  /\ phase = "fault" => \E k \in 1..Length : Listable(k) /\ ~Loader!Complete(Loader!Entries[k])
Listed ==
  /\ phase = "list" => started = <<>> /\ listed = {k \in AllModules : k < entry}
  /\ phase \in {"init", "done"} \/ started # <<>> => listed = AllModules
Started ==
  /\ started \in Seq(1..Length)
  /\ \A m, n \in DOMAIN started : m < n => started[m] < started[n]
  /\ \A n \in DOMAIN started : Chosen(started[n])
  /\ phase # "fault" =>
       /\ \A n \in DOMAIN started : Decided(started[n])
       /\ \A k \in 1..Length : Chosen(k) /\ Decided(k) => \E n \in DOMAIN started : started[n] = k
Handled == module_cur_handler = IF started = <<>> THEN NULL ELSE started[Len(started)]

LoaderInv == tags \in TagLists /\ (Possible => InPhase /\ Listed /\ Started /\ Handled)

(* e is the sequence s of elements of S with x behind it.                   *)
IsExtended(S, s, x, e) ==
  /\ e \in Seq(S) /\ Len(e) = Len(s) + 1 /\ DOMAIN e = 1..(Len(s) + 1)
  /\ e[Len(s) + 1] = x /\ \A n \in 1..Len(s) : e[n] = s[n]

LEMMA Appended ==
  ASSUME NEW S, NEW s \in Seq(S), NEW x \in S
  PROVE  (\A n \in 1..Len(s) : s[n] \in S) /\ IsExtended(S, s, x, Append(s, x))
  BY DEF IsExtended

LEMMA InitLoaderInv == Loader!Init => LoaderInv
<1> SUFFICES ASSUME Loader!Init, Possible PROVE InPhase /\ Listed /\ Started /\ Handled
    BY DEF Loader!Init, LoaderInv
<1>1. Length \in Nat
    BY EntriesAreList DEF Length
<1>2. phase = "list" /\ entry = 1 /\ listed = {} /\ module_cur_handler = NULL /\ started = <<>>
    BY DEF Loader!Init
<1> QED
    BY <1>1, <1>2 DEF InPhase, Listed, Started, Handled, AllModules, Decided

LEMMA LoaderInductive == ASSUME LoaderInv, [Loader!Next]_(Loader!vars) PROVE LoaderInv'
<1>1. UNCHANGED tags
    BY DEF Loader!Next, Loader!vars, Loader!EndOfMap, Loader!ListEntry, Loader!InitEntry,
           Loader!Fault, Loader!NextEntry
<1>2. Loader!Entries' = Loader!Entries /\ Loader!MemMap' = Loader!MemMap
    BY <1>1 DEF Loader!Entries, Loader!MemMap
<1>3. Possible' <=> Possible
    BY <1>1, <1>2 DEF Possible, Listable
<1> SUFFICES ASSUME Possible PROVE (InPhase /\ Listed /\ Started /\ Handled)'
    BY <1>1, <1>3 DEF LoaderInv
<1>4. InPhase /\ Listed /\ Started /\ Handled
    BY DEF LoaderInv
<1>5. /\ Length \in Nat /\ Length' = Length /\ DOMAIN Loader!Entries = 1..Length
      /\ \A k : Listable(k)' = Listable(k)
      /\ \A k : Chosen(k)' = Chosen(k)
    BY <1>2, EntriesAreList DEF Length, Listable, Chosen, Named, Loader!Executable
<1> DEFINE Stuck == \E k \in 1..Length : Listable(k) /\ ~Loader!Complete(Loader!Entries[k])
<1>6. ASSUME Loader!Fault, phase \in {"list", "init"}, Stuck
      PROVE  (InPhase /\ Listed /\ Started /\ Handled)'
  <2>1. phase' = "fault" /\ UNCHANGED <<entry, listed, module_cur_handler, started>>
      BY <1>6 DEF Loader!Fault
  <2>2. InPhase'
      BY <1>2, <1>4, <1>5, <1>6, <2>1 DEF InPhase
  <2>3. Listed'
      BY <1>4, <1>5, <1>6, <2>1 DEF Listed, AllModules
  <2>4. Started' /\ Handled'
      BY <1>4, <1>5, <2>1 DEF Started, Handled
  <2> QED
      BY <2>2, <2>3, <2>4
<1>7. CASE Loader!EndOfMap
  <2>1. /\ (phase = "list" /\ phase' = "init") \/ (phase = "init" /\ phase' = "done")
        /\ entry = Length + 1 /\ entry' = 1 /\ UNCHANGED <<listed, module_cur_handler, started>>
      BY <1>4, <1>5, <1>7 DEF Loader!EndOfMap, InPhase, Length
  <2> QED
      BY <1>4, <1>5, <2>1 DEF InPhase, Listed, Started, Handled, AllModules, Decided
<1>8. CASE Loader!ListEntry
  <2>1. phase = "list" /\ entry \in 1..Length
      BY <1>4, <1>5, <1>8 DEF Loader!ListEntry, InPhase, Length
  <2>2. CASE Loader!Fault
    <3>1. Listable(entry) /\ \E t \in Loader!Described : Loader!get_section(Loader!Entries[entry], t) = NULL
        BY <1>8, <2>1, <2>2 DEF Loader!ListEntry, Loader!Fault, Loader!NextEntry, Listable
    <3>2. Stuck
        BY <2>1, <3>1 DEF Loader!Complete
    <3> QED
        BY <1>6, <2>1, <2>2, <3>2
  <2>3. CASE ~Loader!Fault
    <3>1. /\ phase' = phase /\ entry' = entry + 1
          /\ listed' = (IF Listable(entry) THEN listed \cup {entry} ELSE listed)
          /\ UNCHANGED <<module_cur_handler, started>>
        BY <1>8, <2>3 DEF Loader!ListEntry, Loader!NextEntry, Listable
    <3> QED
        BY <1>4, <1>5, <2>1, <3>1 DEF InPhase, Listed, Started, Handled, AllModules, Decided
  <2> QED
      BY <2>2, <2>3
<1>9. CASE Loader!InitEntry
  <2>1. phase = "init" /\ entry \in 1..Length
      BY <1>4, <1>5, <1>9 DEF Loader!InitEntry, InPhase, Length
  <2>2. CASE Loader!Fault
    <3>1. /\ Listable(entry) /\ Loader!Entries[entry].Type = "executable"
          /\ \/ Loader!get_section(Loader!Entries[entry], "signal_handler") = NULL
             \/ Loader!get_section(Loader!Entries[entry], "name") = NULL
        BY <1>9, <2>1, <2>2 DEF Loader!InitEntry, Loader!Fault, Loader!NextEntry, Listable
    <3>2. Stuck
        BY <2>1, <3>1 DEF Loader!Complete, Loader!Described
    <3> QED
        BY <1>6, <2>1, <2>2, <3>2
  <2> SUFFICES ASSUME ~Loader!Fault PROVE (InPhase /\ Listed /\ Started /\ Handled)'
      BY <2>2
  <2>3. /\ phase = "init" /\ phase' = phase /\ entry \in 1..Length /\ entry' = entry + 1
        /\ listed' = listed
        /\ IF Chosen(entry) THEN Loader!Start(entry) ELSE UNCHANGED <<module_cur_handler, started>>
      BY <1>9, <2>1
      DEF Loader!InitEntry, Loader!NextEntry, Loader!Executable, Chosen, Named
  <2>4. InPhase' /\ Listed'
      BY <1>4, <1>5, <2>3 DEF InPhase, Listed, AllModules
  <2>5. /\ started \in Seq(1..Length) /\ Len(started) \in Nat /\ DOMAIN started = 1..Len(started)
        /\ \A n \in DOMAIN started : started[n] \in 1..Length /\ started[n] < entry
    <3>1. started \in Seq(1..Length) /\ \A n \in DOMAIN started : Decided(started[n])
        BY <1>4, <2>3 DEF Started
    <3>2. entry \in 1..Length
        BY <2>3
    <3>3. \A k : Decided(k) <=> k < entry
        BY <2>3 DEF Decided
    <3>4. Len(started) \in Nat /\ DOMAIN started = 1..Len(started)
        BY <3>1
    <3>5. \A n \in 1..Len(started) : started[n] \in 1..Length
        BY <3>1, <3>2, Appended, Zenon
    <3> QED
        BY <3>1, <3>3, <3>4, <3>5
  <2>6. \A k : Decided(k)' <=> k < entry + 1
      BY <2>3 DEF Decided
  <2>7. entry \in Int /\ \A n \in DOMAIN started : started[n] < entry + 1
    <3>1. \A n \in DOMAIN started : started[n] \in Int
        BY <2>5
    <3> QED
        BY <2>3, <2>5, <3>1
  <2>8. CASE Chosen(entry)
    <3> DEFINE L == Len(started)
    <3>1. started' = Append(started, entry) /\ module_cur_handler' = entry
        BY <2>3, <2>8 DEF Loader!Start
    <3>2. /\ started' \in Seq(1..Length) /\ Len(started') = L + 1
          /\ DOMAIN started' = 1..(L + 1)
          /\ started'[L + 1] = entry /\ \A n \in 1..L : started'[n] = started[n]
      <4>1. started \in Seq(1..Length) /\ entry \in 1..Length
          BY <2>3, <2>5
      <4>2. IsExtended(1..Length, started, entry, Append(started, entry))
          BY <4>1, Appended, Zenon
      <4>3. IsExtended(1..Length, started, entry, started')
          BY <3>1, <4>2
      <4> QED
          BY <4>3 DEF IsExtended
    <3> HIDE DEF L
    <3>3. started' # <<>> /\ L \in Nat /\ L = Len(started) /\ DOMAIN started = 1..L
        BY <2>5, <3>2 DEF L
    <3>4. Handled'
        BY <3>1, <3>2, <3>3 DEF Handled
    <3>5. \A n \in 1..(L + 1) : n \in 1..L \/ n = L + 1
        BY <3>3
    <3>6. \A m, n \in DOMAIN started' : m < n => started'[m] < started'[n]
      <4> SUFFICES ASSUME NEW m \in 1..(L + 1), NEW n \in 1..(L + 1), m < n
                   PROVE  started'[m] < started'[n]
          BY <3>2
      <4>1. m \in 1..L
          BY <3>3
      <4>2. CASE n \in 1..L
          BY <1>4, <3>2, <3>3, <4>1, <4>2 DEF Started
      <4>3. CASE n = L + 1
          BY <2>5, <3>2, <3>3, <4>1, <4>3
      <4> QED
          BY <3>5, <4>2, <4>3
    <3>7. ASSUME NEW n \in 1..(L + 1) PROVE Decided(started[n])'
      <4>1. started'[n] < entry + 1
        <5>1. CASE n \in 1..L
            BY <2>3, <2>5, <3>2, <3>3, <5>1
        <5>2. CASE n = L + 1
            BY <2>3, <3>2, <5>2
        <5> QED
            BY <3>5, <5>1, <5>2
      <4> QED
          BY <2>3, <4>1 DEF Decided
    <3>8. ASSUME NEW k \in 1..Length, Chosen(k), Decided(k)'
          PROVE  \E n \in DOMAIN started' : started'[n] = k
      <4>1. Decided(k) \/ k = entry
          BY <2>3, <3>8 DEF Decided
      <4>2. CASE Decided(k)
        <5>1. PICK n \in DOMAIN started : started[n] = k
            BY <1>4, <2>3, <3>8, <4>2 DEF Started
        <5>2. n \in DOMAIN started' /\ started'[n] = k
            BY <3>2, <3>3, <5>1
        <5> QED
            BY <5>2
      <4>3. CASE k = entry
        <5>1. L + 1 \in DOMAIN started' /\ started'[L + 1] = k
            BY <3>2, <3>3, <4>3
        <5> QED
            BY <5>1
      <4> QED
          BY <4>1, <4>2, <4>3
    <3>9. ASSUME NEW n \in 1..(L + 1) PROVE Chosen(started'[n])
      <4>1. CASE n \in 1..L
          BY <1>4, <3>2, <3>3, <4>1 DEF Started
      <4>2. CASE n = L + 1
          BY <2>8, <3>2, <4>2
      <4> QED
          BY <3>5, <4>1, <4>2
    <3>10. Started'
        BY <1>5, <2>3, <3>2, <3>6, <3>7, <3>8, <3>9 DEF Started
    <3> QED
        BY <2>4, <3>4, <3>10
  <2>9. CASE ~Chosen(entry)
    <3>1. started' = started /\ module_cur_handler' = module_cur_handler
        BY <2>3, <2>9
    <3>2. ASSUME NEW k \in 1..Length
          PROVE  Chosen(k) /\ Decided(k)' <=> Chosen(k) /\ Decided(k)
      <4>1. k < entry + 1 <=> k < entry \/ k = entry
          BY <2>3
      <4> QED
          BY <2>3, <2>9, <4>1 DEF Decided
    <3>3. \A n \in DOMAIN started : Decided(started[n])'
        BY <2>3, <2>7, <3>1 DEF Decided
    <3>4. Started'
      <4>1. /\ \A n \in DOMAIN started' : Chosen(started'[n])
            /\ \A m, n \in DOMAIN started' : m < n => started'[m] < started'[n]
            /\ started' \in Seq(1..Length)
          BY <1>4, <3>1 DEF Started
      <4>2. \A k \in 1..Length : Chosen(k) /\ Decided(k)' => \E n \in DOMAIN started' : started'[n] = k
          BY <1>4, <2>3, <3>1, <3>2 DEF Started
      <4>3. \A n \in DOMAIN started' : Decided(started[n])'
          BY <3>1, <3>3
      <4> QED
          BY <1>5, <4>1, <4>2, <4>3 DEF Started
    <3> QED
        BY <1>4, <2>4, <3>1, <3>4 DEF Handled
  <2> QED
      BY <2>8, <2>9
<1>10. CASE UNCHANGED Loader!vars
  <2>1. UNCHANGED <<phase, entry, listed, module_cur_handler, started>>
      BY <1>10 DEF Loader!vars
  <2>2. InPhase'
      BY <1>2, <1>4, <1>5, <2>1 DEF InPhase
  <2>3. Listed'
      BY <1>4, <1>5, <2>1 DEF Listed, AllModules
  <2>4. Started' /\ Handled'
      BY <1>4, <1>5, <2>1 DEF Started, Handled, Decided
  <2> QED
      BY <2>2, <2>3, <2>4
<1> QED
    BY <1>7, <1>8, <1>9, <1>10 DEF Loader!Next

LEMMA LoaderStarts == ASSUME LoaderInv, Loader!MemMap # NULL PROVE Loader!ShellStarts
<1>1. InPhase /\ Listed /\ Started /\ Handled
    BY DEF LoaderInv, Possible
<1>2. Length \in Nat /\ DOMAIN Loader!Entries = 1..Length
    BY EntriesAreList DEF Length, LoaderInv, Possible
<1>3. phase = "fault" =>
        \E k \in DOMAIN Loader!Entries : Listable(k) /\ ~Loader!Complete(Loader!Entries[k])
    BY <1>1, <1>2 DEF InPhase
<1>4. started # <<>> => listed = {k \in DOMAIN Loader!Entries : Listable(k)}
    BY <1>1, <1>2 DEF Listed, AllModules
<1>5. ASSUME phase = "done", NEW k \in DOMAIN Loader!Entries,
             Loader!Executable(k), Named(Loader!Entries[k]) = Shell
      PROVE  \E n \in DOMAIN started : started[n] = k
  <2>1. Chosen(k)
      BY <1>5 DEF Chosen, Loader!Equal
  <2> QED
      BY <1>1, <1>2, <1>5, <2>1 DEF Started, Decided
<1>6. ASSUME NEW n \in DOMAIN started
      PROVE  /\ Loader!Executable(started[n])
             /\ ~Loader!Differ(Named(Loader!Entries[started[n]]), Shell)
  <2>1. Chosen(started[n])
      BY <1>1 DEF Started
  <2> QED
      BY <2>1 DEF Chosen, Loader!Equal, Loader!Differ
<1>7. /\ \A m, n \in DOMAIN started : m < n => started[m] < started[n]
      /\ module_cur_handler = IF started = <<>> THEN NULL ELSE started[Len(started)]
    BY <1>1 DEF Started, Handled
<1> QED
    BY <1>3, <1>4, <1>5, <1>6, <1>7, Zenon DEF Loader!ShellStarts, Listable, Named

-----------------------------------------------------------------------------
(* kmain *)

(* Every step of kmain is one of its tables', of the clock's and of the     *)
(* loader's, or leaves them alone: each part runs as its own module says.   *)
LEMMA PartsStep ==
  ASSUME [BootNext]_boot
  PROVE  [Next]_vars /\ [Clock!Next]_(Clock!vars) /\ [Loader!Next]_(Loader!vars)
<1>1. /\ UNCHANGED rtc => UNCHANGED Clock!vars
      /\ UNCHANGED modules => UNCHANGED Loader!vars
    BY DEF Clock!vars, Loader!vars, rtc, modules
<1>2. CASE pmm_init \/ graphics_init \/ memory_map_print \/ Enter
    BY <1>1, <1>2 DEF pmm_init, graphics_init, memory_map_print, Enter
<1>3. CASE GdtInit
    BY <1>1, <1>3 DEF GdtInit, Next
<1>4. CASE IdtInit
    BY <1>1, <1>4 DEF IdtInit, Next
<1>5. CASE RtcRead
    BY <1>1, <1>5 DEF RtcRead
<1>6. CASE Modules
    BY <1>1, <1>6 DEF Modules
<1>7. CASE UNCHANGED boot
    BY <1>1, <1>7 DEF boot
<1> QED
    BY <1>2, <1>3, <1>4, <1>5, <1>6, <1>7 DEF BootNext

(* kmain runs gdt_init and idt_init, rtc_read, and the loader, each as its  *)
(* own module says: what holds of one of them holds of it in kmain          *)
(* (kernel.c:27-85).                                                        *)
THEOREM BootRunsItsParts == BootSpec => Spec /\ Clock!Spec /\ Loader!Spec
<1>1. BootInit => Init /\ Clock!Init /\ Loader!Init
    BY DEF BootInit
<1>2. [BootNext]_boot => [Next]_vars /\ [Clock!Next]_(Clock!vars) /\ [Loader!Next]_(Loader!vars)
    BY PartsStep
<1> QED
    BY <1>1, <1>2, PTL DEF BootSpec, Spec, Clock!Spec, Loader!Spec

(* Behind pmm_init there is a memory map, since it has been used.           *)
MapIsThere == at \notin {"pmm_init", "fault"} => Loader!MemMap # NULL

LEMMA MapStaysThere == ASSUME MapIsThere, [BootNext]_boot PROVE MapIsThere'
<1>1. UNCHANGED tags
    BY PartsStep
    DEF Loader!Next, Loader!vars, Loader!EndOfMap, Loader!ListEntry, Loader!InitEntry,
        Loader!Fault, Loader!NextEntry
<1>2. Loader!MemMap' = Loader!MemMap
    BY <1>1 DEF Loader!MemMap
<1>3. CASE pmm_init
    BY <1>2, <1>3 DEF pmm_init, MapIsThere
<1>4. CASE graphics_init \/ memory_map_print \/ GdtInit \/ IdtInit \/ Enter
    BY <1>2, <1>4
    DEF graphics_init, memory_map_print, GdtInit, IdtInit, Enter, MapIsThere
<1>5. CASE RtcRead
    BY <1>2, <1>5 DEF RtcRead, MapIsThere
<1>6. CASE Modules
    BY <1>2, <1>6 DEF Modules, MapIsThere
<1>7. CASE UNCHANGED boot
    BY <1>2, <1>7 DEF boot, MapIsThere
<1> QED
    BY <1>3, <1>4, <1>5, <1>6, <1>7 DEF BootNext

-----------------------------------------------------------------------------
(* Theorems *)

(* Wherever the TSS lies, the task register finds it, and code and data     *)
(* selectors find descriptors of their kind (cpu.c:158-244).                *)
THEOREM SelectorsFindHolds == BootSpec => []SelectorsFind
<1>1. Spec => []SelectorsFind
    BY InitTablesInv, TablesInductive, TablesFind, PTL DEF Spec
<1> QED
    BY <1>1, BootRunsItsParts, PTL

(* Wherever the stubs lie, once interrupts are enabled all 48 vectors have  *)
(* a gate that leads to their own (cpu.c:248-305).                          *)
THEOREM InterruptsReachStubsHolds == BootSpec => []InterruptsReachStubs
<1>1. Spec => []InterruptsReachStubs
    BY InitTablesInv, TablesInductive, TablesReach, PTL DEF Spec
<1> QED
    BY <1>1, BootRunsItsParts, PTL

(* Whenever the clock is read, in all settings and however many seconds     *)
(* pass meanwhile, the date and time are not ahead of it (cmos.c:34-39).    *)
THEOREM NeverAheadHolds == BootSpec => []NeverAhead
<1>1. ClockInv /\ [Clock!Next]_(Clock!vars) => ClockInv'
    BY ClockInductive
<1>2. Clock!Spec => []Clock!NeverAhead
    BY InitClockInv, <1>1, ClockIsNeverAhead, PTL DEF Clock!Spec
<1>3. NeverAhead <=> Clock!NeverAhead
    BY DEF NeverAhead
<1> QED
    BY <1>2, <1>3, BootRunsItsParts, PTL

(* If no second passes they are the clock's in all settings, but for noon   *)
(* and midnight of a 12-hour clock, and the weekday is the calendar's, on   *)
(* every day from March 2000 to the end of 2069 (cmos.c:44-53, 71-100).     *)
THEOREM ReadsTheClockHolds == BootSpec => []ReadsTheClock
<1>1. ClockInv /\ [Clock!Next]_(Clock!vars) => ClockInv'
    BY ClockInductive
<1>2. Clock!Spec => []Clock!ReadsTheClock
    BY InitClockInv, <1>1, ClockIsRead, PTL DEF Clock!Spec
<1>3. ReadsTheClock <=> Clock!ReadsTheClock
    BY DEF ReadsTheClock
<1> QED
    BY <1>2, <1>3, BootRunsItsParts, PTL

(* Whatever the memory map, only a missing section stops the loader; it    *)
(* lists all modules before it starts the first, starts all shells and none *)
(* whose name differs where it has a character, in order, and the last gets *)
(* the signals (module.c:38-112).                                           *)
THEOREM ShellStartsHolds == BootSpec => []ShellStarts
<1>1. LoaderInv /\ [Loader!Next]_(Loader!vars) => LoaderInv'
    BY LoaderInductive
<1>2. Loader!Spec => []LoaderInv
    BY InitLoaderInv, <1>1, PTL DEF Loader!Spec
<1>3. BootInit => MapIsThere
    BY DEF BootInit, MapIsThere
<1>4. MapIsThere /\ [BootNext]_boot => MapIsThere'
    BY MapStaysThere
<1>5. LoaderInv /\ MapIsThere => ShellStarts
    BY LoaderStarts DEF MapIsThere, ShellStarts
<1> QED
    BY <1>2, <1>3, <1>4, <1>5, BootRunsItsParts, PTL DEF BootSpec
=============================================================================
