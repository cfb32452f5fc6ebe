---------------------------- MODULE OptionParser -----------------------------
(***************************************************************************)
(* The command line: option_parser's splitting and conversions, and the    *)
(* sections of vmm/src/config.rs that are parsed with it.                  *)
(*                                                                         *)
(* A behaviour parses one text.  A text is a sequence of characters where  *)
(* the brackets matter (`split', `tuple'), a digit standing for a number,  *)
(* and a sequence of options where they do not (`section'): [key, eq, val] *)
(* is the option `key=val', or `key' alone without eq.  The value of an    *)
(* option is a word of Words; "" is the empty one.                         *)
(***************************************************************************)
EXTENDS Integers, Sequences, FiniteSets, SequencesExt

CONSTANTS
    MaxText,     \* bound: the length of a text with brackets
    MaxTuples,   \* bound: the tuples of a list, and the items of a tuple
    Sections,    \* the sections that are parsed
    PairedRates  \* the options of a token bucket are given together

VARIABLES dev, guest, host

parserVars == <<dev, guest, host>>

\* The empty word, a switch, a number, a word that is well-formed where a word
\* of some form is asked for, and one that is not.
Words == {"", "on", "3", "w", "x"}
Digits == {"0", "1", "2", "3"}
Number(c) == CASE c = "0" -> 0 [] c = "1" -> 1 [] c = "2" -> 2 [] c = "3" -> 3

Failed == [ok |-> FALSE, list |-> <<>>]
Good(list) == [ok |-> TRUE, list |-> list]

-----------------------------------------------------------------------------
(* Lists in brackets.                                                      *)

Count(s, c) == Cardinality({i \in DOMAIN s : s[i] = c})

\* str::split
split(s, at) ==
    LET Take(acc, c) == IF c = at THEN Append(acc, <<>>)
                        ELSE [acc EXCEPT ![Len(acc)] = Append(@, c)]
    IN FoldLeft(Take, << <<>> >>, s)

\* str::trim_matches of both brackets
trim_matches(s) ==
    LET inner == {i \in DOMAIN s : s[i] \notin {"[", "]"}} IN
    IF inner = {} THEN <<>> ELSE SubSeq(s, Min(inner), Max(inner))

\* An element joins the previous one while a bracket is open; the brackets of
\* one element are counted together, whatever their order.
split_commas_outside_brackets(s) ==
    LET Take(acc, e) ==
            LET open == acc.open + Count(e, "[")
                shut == Count(e, "]")
            IN [ok |-> acc.ok /\ shut <= open, open |-> open - shut,
                list |-> IF acc.open > 0
                         THEN [acc.list EXCEPT ![Len(acc.list)] = @ \o <<",">> \o e]
                         ELSE Append(acc.list, e)]
        all == FoldLeft(Take, [ok |-> TRUE, open |-> 0, list |-> <<>>], split(s, ","))
    IN IF all.ok THEN Good(all.list) ELSE Failed

\* One number, or the numbers of a range.
RangeOf(s) ==
    LET items == split(s, "-")
        numbers == \A i \in DOMAIN items : Len(items[i]) = 1 /\ items[i][1] \in Digits
        first == Number(items[1][1])
        last == Number(items[2][1])
    IN IF Len(items) > 2 \/ ~ numbers THEN Failed
       ELSE IF Len(items) = 1 THEN Good(<<first>>)
       ELSE IF first >= last THEN Failed
       ELSE Good([i \in 1..(last - first + 1) |-> first + i - 1])

\* The parsed parts one after the other, or the error of the first that fails.
Collect(parts) ==
    IF \E i \in DOMAIN parts : ~ parts[i].ok THEN Failed
    ELSE Good(FoldLeft(LAMBDA acc, p : acc \o p.list, <<>>, parts))

IntegerList(s) ==
    LET ranges == split(trim_matches(s), ",") IN
    Collect([i \in DOMAIN ranges |-> RangeOf(ranges[i])])

Tuple(s) ==
    LET tuples == split_commas_outside_brackets(trim_matches(s))
        One(t) ==
            LET items == split(t, "@")
                vals == IntegerList(items[2])
            IN IF Len(items) # 2 \/ Len(items[1]) # 1 THEN Failed
               ELSE IF items[1][1] \notin Digits \/ ~ vals.ok THEN Failed
               ELSE Good(<< <<Number(items[1][1]), vals.list>> >>)
    IN IF ~ tuples.ok THEN Failed
       ELSE Collect([i \in DOMAIN tuples.list |-> One(tuples.list[i])])

-----------------------------------------------------------------------------
(* Options.                                                                *)

None == ""

\* A section: its options that are kept as text, those that are text of some
\* form, those that have to be there, and its switches and numbers with their
\* defaults (0 for the absent number of an Option).
Section(text, typed, required, toggles, numbers) ==
    [text |-> text, typed |-> typed, required |-> required, toggles |-> toggles,
     numbers |-> numbers, valueless |-> {}, unread |-> {}]

Off(names) == [n \in names |-> FALSE]
Zero(names) == [n \in names |-> 0]
Rates == {"bw_size", "bw_one_time_burst", "bw_refill_time",
          "ops_size", "ops_one_time_burst", "ops_refill_time"}

CpusConfig ==
    Section({}, {"topology", "affinity", "features"}, {}, Off({"kvm_hyperv"}),
            [boot |-> 1, max |-> 1, max_phys_bits |-> 46])
PlatformConfig ==
    Section({"serial_number"}, {"iommu_segments"}, {}, Off({}), [num_pci_segments |-> 1])

\* "file" is accepted and never read.
MemoryConfig ==
    [Section({}, {"hotplug_method"}, {}, Off({"mergeable", "shared", "hugepages", "prefault"}),
             [size |-> 512] @@ Zero({"hotplug_size", "hotplugged_size", "hugepage_size"}))
        EXCEPT !.unread = {"file"}]
MemoryZoneConfig ==
    Section({"id", "file"}, {}, {"id"}, Off({"shared", "hugepages", "prefault"}),
            [size |-> 512] @@ Zero({"hugepage_size", "host_numa_node", "hotplug_size",
                                    "hotplugged_size"}))
DiskConfig ==
    Section({"path", "socket", "id"}, {}, {},
            [poll_queue |-> TRUE] @@ Off({"readonly", "direct", "iommu", "vhost_user",
                                          "_disable_io_uring"}),
            [queue_size |-> 128, num_queues |-> 1, pci_segment |-> 0] @@ Zero(Rates))
NetConfig ==
    Section({"tap", "socket", "id"}, {"ip", "mask", "mac", "host_mac", "vhost_mode", "fd"}, {},
            Off({"iommu", "vhost_user"}),
            [queue_size |-> 256, num_queues |-> 2, pci_segment |-> 0] @@ Zero(Rates))
RngConfig == Section({"src"}, {}, {}, Off({"iommu"}), Zero({}))
BalloonConfig ==
    Section({}, {}, {}, Off({"deflate_on_oom", "free_page_reporting"}), Zero({"size"}))
FsConfig ==
    Section({"tag", "socket", "id"}, {}, {"tag", "socket"}, Off({}),
            [queue_size |-> 1024, num_queues |-> 1, pci_segment |-> 0])
PmemConfig ==
    Section({"file", "id"}, {}, {"file"}, Off({"iommu", "discard_writes"}),
            Zero({"size", "pci_segment"}))
ConsoleConfig ==
    [Section({"file"}, {}, {}, Off({"iommu"}), Zero({}))
        EXCEPT !.valueless = {"off", "pty", "tty", "null"}]
DeviceConfig ==
    Section({"path", "id"}, {}, {"path"}, Off({"iommu"}), Zero({"pci_segment"}))
UserDeviceConfig ==
    Section({"socket", "id"}, {}, {"socket"}, Off({}), Zero({"pci_segment"}))
VdpaConfig ==
    Section({"path", "id"}, {}, {"path"}, Off({"iommu"}), [num_queues |-> 1, pci_segment |-> 0])
VsockConfig ==
    Section({"socket", "id"}, {}, {"socket", "cid"}, Off({"iommu"}), Zero({"cid", "pci_segment"}))
SgxEpcConfig == Section({"id"}, {}, {"id"}, Off({"prefault"}), Zero({"size"}))
NumaConfig ==
    Section({}, {"cpus", "distances", "memory_zones", "sgx_epc_sections"}, {}, Off({}),
            Zero({"guest_numa_id"}))
RestoreConfig ==
    Section({"source_url"}, {}, {"source_url"}, Off({"prefault"}), Zero({}))

Table(name) ==
    CASE name = "cpus" -> CpusConfig [] name = "platform" -> PlatformConfig
      [] name = "memory" -> MemoryConfig [] name = "memory-zone" -> MemoryZoneConfig
      [] name = "disk" -> DiskConfig [] name = "net" -> NetConfig [] name = "rng" -> RngConfig
      [] name = "balloon" -> BalloonConfig [] name = "fs" -> FsConfig [] name = "pmem" -> PmemConfig
      [] name = "console" -> ConsoleConfig [] name = "device" -> DeviceConfig
      [] name = "user-device" -> UserDeviceConfig [] name = "vdpa" -> VdpaConfig
      [] name = "vsock" -> VsockConfig [] name = "sgx-epc" -> SgxEpcConfig
      [] name = "numa" -> NumaConfig [] name = "restore" -> RestoreConfig

Options(t) ==
    t.text \cup t.typed \cup DOMAIN t.toggles \cup DOMAIN t.numbers \cup t.valueless \cup t.unread

Unset == "-"

\* Mutant: the first value of an option is kept.
parse_first(t, args) ==
    LET Take(acc, o) ==
            IF o.key \notin Options(t) \/ (o.key \notin t.valueless /\ ~ o.eq)
            THEN [acc EXCEPT !.ok = FALSE]
            ELSE IF acc.value[o.key] # Unset THEN acc
            ELSE [acc EXCEPT !.value[o.key] = IF o.key \in t.valueless THEN "" ELSE o.val]
    IN FoldLeft(Take, [ok |-> TRUE, value |-> [o \in Options(t) |-> Unset]], args)

\* OptionParser::parse: the last value of an option counts.
parse(t, args) ==
    LET Take(acc, o) ==
            IF o.key \notin Options(t) \/ (o.key \notin t.valueless /\ ~ o.eq)
            THEN [acc EXCEPT !.ok = FALSE]
            ELSE [acc EXCEPT !.value[o.key] = IF o.key \in t.valueless THEN "" ELSE o.val]
    IN FoldLeft(Take, [ok |-> TRUE, value |-> [o \in Options(t) |-> Unset]], args)

\* An empty value is none.
get(p, o) == IF p.value[o] = "" THEN Unset ELSE p.value[o]
is_set(p, o) == p.value[o] # Unset

Converts(t, o, w) ==
    CASE o \in DOMAIN t.toggles -> w = "on"
      [] o \in DOMAIN t.numbers -> w = "3"
      [] o \in t.typed -> w = "w"
      [] OTHER -> TRUE

\* The mode of a console: the first of the modes in this order.
ModeOf(p) ==
    LET modes == <<"off", "pty", "tty", "null", "file">>
        given == {i \in DOMAIN modes : is_set(p, modes[i])}
    IN IF given = {} THEN Unset
       ELSE IF Min(given) = 5 /\ get(p, "file") = Unset THEN Unset
       ELSE modes[Min(given)]

\* A token bucket needs a size and a refill time, or there is none.
Bucket(numbers, size, refill_time) ==
    size \in DOMAIN numbers /\ numbers[size] # 0 /\ numbers[refill_time] # 0

Refused == [ok |-> FALSE]

\* The parse function of a section.
ParseSection(name, args) ==
    LET t == Table(name)
        p == parse(t, args)
        wrong == {o \in Options(t) \ t.unread : get(p, o) # Unset /\ ~ Converts(t, o, get(p, o))}
        missing == {o \in t.required : get(p, o) = Unset}
        Num(o) == IF get(p, o) # Unset THEN 3 ELSE t.numbers[o]
        numbers == [o \in DOMAIN t.numbers |->
                       IF name = "cpus" /\ o = "max" /\ get(p, o) = Unset THEN Num("boot") ELSE Num(o)]
    IN IF ~ p.ok \/ wrong # {} \/ missing # {} \/ (name = "console" /\ ModeOf(p) = Unset)
       THEN Refused
       ELSE [ok |-> TRUE,
             text |-> [o \in t.text \cup t.typed |-> get(p, o)],
             toggles |-> [o \in DOMAIN t.toggles |-> IF get(p, o) # Unset THEN TRUE ELSE t.toggles[o]],
             numbers |-> numbers,
             mode |-> IF name = "console" THEN ModeOf(p) ELSE Unset,
             bandwidth |-> Bucket(numbers, "bw_size", "bw_refill_time"),
             ops |-> Bucket(numbers, "ops_size", "ops_refill_time")]

-----------------------------------------------------------------------------
(* One text per behaviour.                                                 *)

Texts == BoundedSeq({",", "[", "]", "a"}, MaxText)

\* The ways to write the numbers of a tuple: one by one, or as ranges.
Items == [from : {0, 2}, to : {0, 2, 3}]
ItemLists == BoundedSeq(Items, MaxTuples) \ {<<>>}
Shown(n) == CASE n = 0 -> "0" [] n = 1 -> "1" [] n = 2 -> "2" [] n = 3 -> "3"
ItemText(i) == IF i.from = i.to THEN <<Shown(i.from)>> ELSE <<Shown(i.from), "-", Shown(i.to)>>
Joined(texts) ==
    FoldLeft(LAMBDA acc, x : IF acc = <<>> THEN x ELSE acc \o <<",">> \o x, <<>>, texts)
ListText(items) == <<"[">> \o Joined([i \in DOMAIN items |-> ItemText(items[i])]) \o <<"]">>
TupleText(t) == <<Shown(t.key), "@">> \o ListText(t.items)
TuplesText(ts) == <<"[">> \o Joined([i \in DOMAIN ts |-> TupleText(ts[i])]) \o <<"]">>
Meant(items) ==
    FoldLeft(LAMBDA acc, i : acc \o [n \in 1..(i.to - i.from + 1) |-> i.from + n - 1], <<>>, items)
TupleLists == BoundedSeq([key : {0, 3}, items : ItemLists], MaxTuples) \ {<<>>}

\* One option or two; "bad" is an option of no section.
Args(name) ==
    LET one == [key : Options(Table(name)) \cup {"bad"}, eq : BOOLEAN, val : Words]
        Kept(o) == (o.eq \/ o.val = "") /\ (PairedRates => o.key \notin Rates)
        opts == {o \in one : Kept(o)}
        rates == IF PairedRates /\ "bw_size" \in Options(Table(name))
                 THEN {[i \in 1..3 |-> [key |-> rs[i], eq |-> TRUE, val |-> "3"]] :
                           rs \in {<<"bw_size", "bw_one_time_burst", "bw_refill_time">>,
                                   <<"ops_refill_time", "ops_one_time_burst", "ops_size">>}}
                 ELSE {}
    IN {<<o>> : o \in opts} \cup {<<o, q>> : o \in opts, q \in opts} \cup rates

New ==
    /\ dev = [done |-> FALSE]
    /\ host = "none"
    /\ \/ \E s \in Texts : guest = [kind |-> "split", text |-> s]
       \/ \E ts \in TupleLists : guest = [kind |-> "tuple", tuples |-> ts]
       \/ \E n \in Sections : \E args \in Args(n) :
             guest = [kind |-> "section", name |-> n, args |-> args]

Done(result) ==
    /\ ~ dev.done
    /\ dev' = [done |-> TRUE, result |-> result]
    /\ UNCHANGED <<guest, host>>

Split == guest.kind = "split" /\ Done(split_commas_outside_brackets(guest.text))
ParseTuples == guest.kind = "tuple" /\ Done(Tuple(TuplesText(guest.tuples)))
ParseOptions == guest.kind = "section" /\ Done(ParseSection(guest.name, guest.args))

Next == Split \/ ParseTuples \/ ParseOptions

Spec == New /\ [][Next]_parserVars

-----------------------------------------------------------------------------
(* Properties.                                                             *)

Depth(s, i) == Count(SubSeq(s, 1, i), "[") - Count(SubSeq(s, 1, i), "]")

\* The commas that separate options are those outside all brackets: the text is
\* cut there and nowhere else, nothing of it is lost, and a text whose
\* brackets open before they close is never refused.
SplitsAtTopLevel ==
    guest.kind = "split" /\ dev.done =>
        LET s == guest.text
            cuts == {i \in DOMAIN s : s[i] = "," /\ Depth(s, i) = 0}
            sound == \A i \in DOMAIN s : Depth(s, i) >= 0
        IN /\ sound => dev.result.ok /\ Len(dev.result.list) = Cardinality(cuts) + 1
           /\ dev.result.ok =>
                  s = Tail(FoldLeft(LAMBDA acc, e : acc \o <<",">> \o e, <<>>, dev.result.list))

\* A list of tuples is read as it was written, although only the outermost
\* brackets at its ends are told from those of its last tuple by counting; a
\* range that does not ascend is refused.
TuplesReadBack ==
    guest.kind = "tuple" /\ dev.done =>
        LET ts == guest.tuples
            ascending == \A i \in DOMAIN ts : \A j \in DOMAIN ts[i].items :
                            ts[i].items[j].from <= ts[i].items[j].to
        IN dev.result =
              IF ascending THEN Good([i \in DOMAIN ts |-> <<ts[i].key, Meant(ts[i].items)>>])
              ELSE Failed

\* An option that was written is used: whatever section accepts a text, the
\* last value given to each of its options is in the configuration it makes,
\* and a rate that was given limits something.
GivenIsUsed ==
    guest.kind = "section" /\ dev.done /\ dev.result.ok =>
        \A i \in DOMAIN guest.args :
            LET o == guest.args[i].key
                w == guest.args[i].val
                r == dev.result
                t == Table(guest.name)
            IN (w # "" /\ \A j \in DOMAIN guest.args : j > i => guest.args[j].key # o) =>
                  CASE o \in t.valueless -> r.mode \in t.valueless
                    [] o \in DOMAIN t.toggles -> r.toggles[o]
                    [] o \in DOMAIN t.numbers ->
                          /\ r.numbers[o] = 3
                          /\ o \in {"bw_size", "bw_one_time_burst", "bw_refill_time"} => r.bandwidth
                          /\ o \in {"ops_size", "ops_one_time_burst", "ops_refill_time"} => r.ops
                    [] o \in t.text \cup t.typed -> r.text[o] = w
                    [] OTHER -> FALSE

\* What is written on the command line is what is configured.
OptionsAreParsed == SplitsAtTopLevel /\ TuplesReadBack /\ GivenIsUsed
=============================================================================
