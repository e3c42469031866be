--------------------------- MODULE HidDescriptor ----------------------------
(***************************************************************************)
(* The HID report descriptor the driver gives to VhfCreate                 *)
(* (windows/driver/Descriptor.c), read the way Windows reads it: item by   *)
(* item, with global items that stay in force across the five copies of    *)
(* the finger collection, and local items that the next field uses up.     *)
(* Next to it is what Driver.c writes into each report.                    *)
(*                                                                         *)
(* An item is <<what, value>>.  A logical maximum is written as its width  *)
(* in bits; physical ranges, units and logical minima (all 0) are left out *)
(* as no report depends on them.                                           *)
(***************************************************************************)
EXTENDS Integers, Sequences

LOCAL INSTANCE SequencesExt

MTP_HID_MAX_CONTACTS == 5

MTP_REPORT_ID_MODE          == 4
MTP_REPORT_ID_INPUT         == 5
MTP_REPORT_ID_FUNCTION      == 6
MTP_REPORT_ID_CAPS          == 7
MTP_REPORT_ID_CERTIFICATION == 8

-----------------------------------------------------------------------------
Page(name)        == << <<"page", name>> >>
Usage(name)       == << <<"usage", name>> >>
Collection(kind)  == << <<"collection", kind>> >>
EndCollection     == << <<"end", "">> >>
ReportId(id)      == << <<"id", id>> >>
Maximum(bits)     == << <<"max", bits>> >>
Data(size, count, main) == << <<"size", size>>, <<"count", count>>, <<main, "data">> >>
Padding(count, main)    == << <<"size", 1>>, <<"count", count>>, <<main, "const">> >>

\* Mutant: the padding of the flags byte is one bit short.
FINGER_COLLECTION_ShortPadding ==
    Page("digitizer") \o Usage("finger") \o Collection("logical")
    \o Usage("confidence") \o Usage("tip")
    \o Maximum(1) \o Data(1, 2, "input") \o Padding(5, "input")
    \o Usage("contact id") \o Maximum(32) \o Data(32, 1, "input")
    \o Page("desktop") \o Maximum(15)
    \o << <<"size", 16>>, <<"count", 1>> >>
    \o Usage("x") \o << <<"input", "data">> >>
    \o Usage("y") \o << <<"input", "data">> >>
    \o EndCollection

FINGER_COLLECTION ==
    Page("digitizer") \o Usage("finger") \o Collection("logical")
    \o Usage("confidence") \o Usage("tip")
    \o Maximum(1) \o Data(1, 2, "input") \o Padding(6, "input")
    \o Usage("contact id") \o Maximum(32) \o Data(32, 1, "input")
    \o Page("desktop") \o Maximum(15)
    \o << <<"size", 16>>, <<"count", 1>> >>
    \o Usage("x") \o << <<"input", "data">> >>
    \o Usage("y") \o << <<"input", "data">> >>
    \o EndCollection

g_MtpReportDescriptor ==
    Page("digitizer") \o Usage("touch pad") \o Collection("application")
    \o ReportId(MTP_REPORT_ID_INPUT)
    \o FINGER_COLLECTION \o FINGER_COLLECTION \o FINGER_COLLECTION
    \o FINGER_COLLECTION \o FINGER_COLLECTION
    \o Page("digitizer")
    \o Maximum(16) \o << <<"size", 16>>, <<"count", 1>> >>
    \o Usage("scan time") \o << <<"input", "data">> >>
    \o Usage("contact count") \o Maximum(7) \o Data(8, 1, "input")
    \o Page("button") \o Usage("button 1") \o Maximum(1)
    \o Data(1, 1, "input") \o Padding(7, "input")
    \o Page("digitizer")
    \o ReportId(MTP_REPORT_ID_CAPS)
    \o Usage("maximum contacts") \o Usage("button type")
    \o Maximum(8) \o Data(8, 2, "feature")
    \o Page("vendor")
    \o ReportId(MTP_REPORT_ID_CERTIFICATION)
    \o Usage("certification") \o Data(8, 256, "feature")
    \o EndCollection
    \o Page("digitizer") \o Usage("configuration") \o Collection("application")
    \o ReportId(MTP_REPORT_ID_MODE)
    \o Usage("finger") \o Collection("logical")
    \o Usage("input mode") \o Maximum(4) \o Data(8, 1, "feature")
    \o EndCollection
    \o Collection("physical")
    \o ReportId(MTP_REPORT_ID_FUNCTION)
    \o Usage("surface switch") \o Usage("button switch")
    \o Maximum(1) \o Data(1, 2, "feature") \o Padding(6, "feature")
    \o EndCollection
    \o EndCollection

-----------------------------------------------------------------------------
(* How Windows reads the descriptor.                                       *)

Field(kind, id, page, usage, size, max) ==
    [kind |-> kind, id |-> id, page |-> page, usage |-> usage, size |-> size, max |-> max]

Start == [page |-> "", id |-> 0, max |-> 0, size |-> 0, count |-> 0,
          usages |-> << >>, depth |-> 0, fields |-> << >>]

\* The fields a main item declares: the last usage goes on for the rest.
Declared(p, kind, sort) ==
    [i \in 1..p.count |->
        Field(kind, p.id, p.page,
              IF sort = "const" THEN "padding"
              ELSE IF i <= Len(p.usages) THEN p.usages[i] ELSE Last(p.usages),
              p.size, p.max)]

Read(p, item) ==
    LET what == item[1] value == item[2]
    IN CASE what = "usage" -> [p EXCEPT !.usages = Append(@, value)]
         [] what \in {"input", "feature"} ->
               [p EXCEPT !.fields = @ \o Declared(p, what, value), !.usages = << >>]
         [] what = "collection" -> [p EXCEPT !.depth = @ + 1, !.usages = << >>]
         [] what = "end" -> [p EXCEPT !.depth = @ - 1]
         [] OTHER -> [p EXCEPT ![what] = value]

Parsed == FoldLeft(Read, Start, g_MtpReportDescriptor)

FieldsOf(kind, id) == SelectSeq(Parsed.fields, LAMBDA f : f.kind = kind /\ f.id = id)
Bits(fields) == FoldLeft(LAMBDA n, f : n + f.size, 0, fields)

-----------------------------------------------------------------------------
(* What the driver writes: MTP_PTP_REPORT after the report identifier, with *)
(* the width of the largest value SubmitIoctlFrame puts there.             *)
Written(page, usage, size, width) ==
    [page |-> page, usage |-> usage, size |-> size, width |-> width]

MTP_PTP_CONTACT ==
    << Written("digitizer", "confidence", 1, 1), Written("digitizer", "tip", 1, 1) >>
    \o [i \in 1..6 |-> Written("digitizer", "padding", 1, 0)]
    \o << Written("digitizer", "contact id", 32, 3), \* a slot
          Written("desktop", "x", 16, 15),           \* MTP_COORDINATE_LOGICAL_MAX
          Written("desktop", "y", 16, 15) >>

MTP_PTP_REPORT ==
    FlattenSeq([i \in 1..MTP_HID_MAX_CONTACTS |-> MTP_PTP_CONTACT])
    \o << Written("digitizer", "scan time", 16, 16),
          Written("digitizer", "contact count", 8, 3),
          Written("button", "button 1", 1, 1) >>
    \o [i \in 1..7 |-> Written("button", "padding", 1, 0)]

\* Mutant: the identifier is not counted in the longest report.
FeatureLength_WithoutId(id) ==
    CASE id = MTP_REPORT_ID_CAPS -> 3
      [] id = MTP_REPORT_ID_CERTIFICATION -> 256
      [] id \in {MTP_REPORT_ID_MODE, MTP_REPORT_ID_FUNCTION} -> 2

\* The buffer lengths MtpEvtVhfGetFeature and MtpEvtVhfSetFeature ask for.
FeatureLength(id) ==
    CASE id = MTP_REPORT_ID_CAPS -> 3
      [] id = MTP_REPORT_ID_CERTIFICATION -> 257
      [] id \in {MTP_REPORT_ID_MODE, MTP_REPORT_ID_FUNCTION} -> 2
-----------------------------------------------------------------------------
\* The members of the packed MTP_PTP_REPORT, one by one and bit by bit.
InputReportDeclared ==
    LET declared == FieldsOf("input", MTP_REPORT_ID_INPUT)
    IN /\ Len(declared) = Len(MTP_PTP_REPORT)
       /\ \A i \in DOMAIN declared :
             LET f == declared[i] w == MTP_PTP_REPORT[i]
             IN /\ <<f.page, f.usage, f.size>> = <<w.page, w.usage, w.size>>
                /\ w.width <= f.max

\* A buffer for the declared report and its identifier is just long enough.
FeatureReportsDeclared ==
    \A id \in {MTP_REPORT_ID_CAPS, MTP_REPORT_ID_CERTIFICATION,
              MTP_REPORT_ID_MODE, MTP_REPORT_ID_FUNCTION} :
        Bits(FieldsOf("feature", id)) = 8 * (FeatureLength(id) - 1)

\* And the maximum contact count the driver answers is the number of finger
\* collections.
DescriptorAgrees ==
    /\ InputReportDeclared
    /\ FeatureReportsDeclared
    /\ MTP_HID_MAX_CONTACTS = Len(SelectSeq(Parsed.fields, LAMBDA f : f.usage = "contact id"))
    /\ Parsed.depth = 0
=============================================================================
