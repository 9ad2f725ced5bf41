---------------------------- MODULE CAConversion ----------------------------
(***************************************************************************)
(* What becomes of a value between a user and a Channel Access record:      *)
(* ca/ca_helper.cpp, the update buffers of ca/ca_channel_manager.cpp and    *)
(* ca/ca_monitor_wrapper.cpp.                                               *)
(*                                                                         *)
(* A value is the sequence of its elements, one for a scalar; the empty     *)
(* sequence is the empty AnyValue, and an empty update buffer.  An element  *)
(* is a number or a text.  Of texts we keep what the code can tell apart:   *)
(* the decimals of a number, a word of at most 40 characters, a longer one  *)
(* and the JSON list of one element.  Numbers are integers that Float32     *)
(* holds exactly, so that of the types of 32 and 64 bits only the unsigned  *)
(* ones refuse any.                                                        *)
(*                                                                         *)
(* External: the record, which holds numbers or texts; what the library     *)
(* and the record make of an element of another kind; TryConvert.           *)
(***************************************************************************)
EXTENDS Integers, Sequences

CONSTANTS Types,        (* the requested AnyTypes *)
          Numbers,      (* the numbers that are written *)
          Words         (* texts of at most 40 characters that are no numbers *)

Codes == {"Bool", "Char8", "Int8", "UInt8", "Int16", "UInt16", "Int32", "UInt32",
          "Int64", "UInt64", "Float32", "Float64", "String", "Struct"}

ASSUME ConversionAssumption ==
  /\ Types \subseteq [code : Codes, array : BOOLEAN, size : Nat \ {0}]
  /\ \A t \in Types : ~t.array => t.size = 1

ASSUME NumbersAssumption ==
  /\ Numbers \subseteq Int
  /\ \A n \in Numbers : -16777216 <= n /\ n <= 16777216

VARIABLES type,         (* channel_anytype *)
          open,         (* AddChannel returned an id *)
          native,       (* what the record holds: "number" or "text" *)
          record,       (* the elements of the record *)
          mine,         (* the value the record was last given, when this client gave it *)
          request,      (* the value of the SetValue that has just returned *)
          answer,       (* what it returned *)
          event,        (* the value of the monitor event that has just come *)
          fresh         (* it succeeded *)

callVars == <<request, answer, event, fresh>>
conversionVars == <<type, open, native, record, mine, callVars>>

Number(n)  == [kind |-> "number", of |-> n]
Decimal(n) == [kind |-> "decimal", of |-> n]
Word(w)    == [kind |-> "word", of |-> w]
Long(w)    == [kind |-> "long", of |-> w]      (* 40 characters w, and some more *)
Listed(e)  == [kind |-> "list", of |-> e.of]   (* [e] *)

IsText(e) == e.kind # "number"

------------------------------------------------------------------------------
(* Types.                                                                  *)

(* Mutant: short unsigned integers are carried like signed ones. *)
Mut_UnsignedLikeSigned ==
  [c \in Codes |-> IF c \in {"Bool", "Char8", "Int8"} THEN "CHAR"
                   ELSE IF c \in {"Int16", "UInt8", "UInt16"} THEN "SHORT"
                   ELSE IF c \in {"UInt32", "UInt64"} THEN "ENUM"
                   ELSE IF c \in {"Int64", "String"} THEN "STRING"
                   ELSE IF c = "Struct" THEN "none" ELSE "DOUBLE"]

ScalarTypeCodeToChannelType ==
  [c \in Codes |-> IF c \in {"Bool", "Char8", "Int8"} THEN "CHAR"
                   ELSE IF c \in {"UInt8", "UInt16", "UInt32", "UInt64"} THEN "ENUM"
                   ELSE IF c \in {"Int64", "String"} THEN "STRING"
                   ELSE IF c = "Int16" THEN "SHORT"
                   ELSE IF c = "Int32" THEN "LONG"
                   ELSE IF c = "Float32" THEN "FLOAT"
                   ELSE IF c = "Float64" THEN "DOUBLE" ELSE "none"]

ArrayTypeCodeToChannelType ==
  [c \in Codes |-> IF c \in {"UInt32", "UInt64"} THEN "STRING"
                   ELSE ScalarTypeCodeToChannelType[c]]

ChannelType(t) == IF t.array THEN ArrayTypeCodeToChannelType[t.code]
                  ELSE ScalarTypeCodeToChannelType[t.code]

ChannelMultiplicity(t) == t.size

(* n is a number of the type. *)
Fits(c, n) == /\ c \in {"Char8", "Int8"} => -128 <= n /\ n <= 127
              /\ c = "UInt8"  => 0 <= n /\ n <= 255
              /\ c = "Int16"  => -32768 <= n /\ n <= 32767
              /\ c = "UInt16" => 0 <= n /\ n <= 65535
              /\ c \in {"UInt32", "UInt64"} => 0 <= n
              /\ c = "Bool" => 0 <= n /\ n <= 1

Default(c) == IF c = "String" THEN Word("") ELSE Number(0)

------------------------------------------------------------------------------
(* From the user to the record.                                            *)

(* TryConvert: numbers are converted when they fit, and anything but 0 is true. *)
Convertible(c, e) == IF c = "String" THEN IsText(e)
                     ELSE ~IsText(e) /\ (c = "Bool" \/ Fits(c, e.of))

Converted(c, e) == IF c = "Bool" THEN Number(IF e.of = 0 THEN 0 ELSE 1) ELSE e

TryConvert(t, v) == Len(v) = t.size /\ \A i \in 1..Len(v) : Convertible(t.code, v[i])

(* The first 40 characters, without a terminating zero. *)
Cut(e) == IF e.kind = "long" THEN Word(e.of) ELSE e

(* One element of the buffer; a text is copied up to its 40th character. *)
GetStringUpdateBuffer(e) == IF IsText(e) THEN Cut(e) ELSE Decimal(e.of)

(* With one element the array itself is handed over, which is not a string. *)
GetStringsUpdateBuffer(t, d) ==
  IF ChannelMultiplicity(t) > 1 THEN [i \in 1..Len(d) |-> GetStringUpdateBuffer(d[i])]
  ELSE <<IF t.array THEN Listed(d[1]) ELSE GetStringUpdateBuffer(d[1])>>

GetUnsignedEnumUpdateBuffer(e) == IF Fits("UInt16", e.of) THEN <<e>> ELSE <<>>

(* Mutant: the low 16 bits are taken. *)
Mut_LowBits(t, d) == [i \in 1..Len(d) |-> Number(d[i].of % 65536)]

(* With one element an array would have to be converted to a number. *)
GetUnsignedEnumsUpdateBuffer(t, d) ==
  IF /\ ChannelMultiplicity(t) > 1 \/ ~t.array
     /\ \A i \in 1..Len(d) : GetUnsignedEnumUpdateBuffer(d[i]) # <<>>
  THEN d ELSE <<>>

(* The bytes of a signed character are those of an unsigned one. *)
ToBytes(t, d) == [i \in 1..Len(d) |-> IF ChannelType(t) = "CHAR" THEN Number(d[i].of % 256)
                                      ELSE d[i]]

DestValue(t, v) == [i \in 1..Len(v) |-> Converted(t.code, v[i])]

GetUpdateBuffer(t, v) ==
  IF ~TryConvert(t, v) THEN <<>>
  ELSE IF ChannelType(t) = "STRING" THEN GetStringsUpdateBuffer(t, DestValue(t, v))
  ELSE IF ChannelType(t) = "ENUM" THEN GetUnsignedEnumsUpdateBuffer(t, DestValue(t, v))
  ELSE ToBytes(t, DestValue(t, v))

(* External: a record of numbers takes texts that are numbers. *)
Storable(e) == native = "text" \/ e.kind \in {"number", "decimal"}

Stored(e) == IF native = "number" THEN Number(e.of)
             ELSE IF IsText(e) THEN e ELSE Decimal(e.of)

NoEvent == event' = <<>> /\ fresh' = FALSE
NoCall  == request' = <<>> /\ answer' = "none"

(* SetValue: UpdateChannel, up to what ca_array_put() does to the record.      *)
(* The library may refuse the put: no connection, no access, too many elements. *)
(* One that it takes may still not be stored, of which nobody is told.         *)
UpdateChannel(v, refused) ==
  LET buffer == GetUpdateBuffer(type, v)
      put == buffer # <<>> /\ ~refused
  IN /\ request' = v
     /\ answer' = IF put THEN "true" ELSE "false"
     /\ IF put /\ \A i \in 1..Len(buffer) : Storable(buffer[i])
        THEN /\ record' = [i \in 1..Len(buffer) |-> Stored(buffer[i])]
             /\ mine' = DestValue(type, v)
        ELSE UNCHANGED <<record, mine>>
     /\ NoEvent
     /\ UNCHANGED <<type, open, native>>

------------------------------------------------------------------------------
(* From the record to the user.                                            *)

(* External: the library makes an element of the requested type of it. *)
Presentable(e) == ChannelType(type) = "STRING" \/ e.kind \in {"number", "decimal"}

Wrapped(n, half) == ((n + half) % (2 * half)) - half

Presented(e) ==
  IF ChannelType(type) = "STRING" THEN (IF IsText(e) THEN e ELSE Decimal(e.of))
  ELSE IF ChannelType(type) = "CHAR" THEN Number(e.of % 256)
  ELSE IF ChannelType(type) = "ENUM" THEN Number(e.of % 65536)
  ELSE IF ChannelType(type) = "SHORT" THEN Number(Wrapped(e.of, 32768))
  ELSE Number(e.of)

(* What one element is parsed to; some cannot be. *)
Nothing == [kind |-> "nothing", of |-> 0]

ParseNumericFromString(e) == IF e.kind = "decimal" /\ Fits(type.code, e.of) THEN Number(e.of) ELSE Nothing

(* As long as it may be. *)
GetEPICSString(e) == Cut(e)

ParseFromStringType(e) == IF type.code = "String" THEN GetEPICSString(e) ELSE ParseNumericFromString(e)

ParseFromUnsignedType(e) == IF Fits(type.code, e.of) THEN e ELSE Nothing

ParseBoolean(e) == Number(IF e.of = 0 THEN 0 ELSE 1)

(* Mutant: characters are unsigned. *)
Mut_Unsigned(e) == e

FromBytes(e) == IF ChannelType(type) = "CHAR" THEN Number(Wrapped(e.of, 128)) ELSE e

(* An array keeps its size: the elements that did not come are default ones. *)
Elementwise(Parse(_), wire) ==
  [i \in 1..type.size |-> IF i <= Len(wire) THEN Parse(wire[i]) ELSE Default(type.code)]

ParseFromStringTypes(wire) == Elementwise(ParseFromStringType, wire)

ParseFromUnsignedEnumTypes(wire) == Elementwise(ParseFromUnsignedType, wire)

ParseBooleans(wire) == Elementwise(ParseBoolean, wire)

ParseFromBytes(wire) == Elementwise(FromBytes, wire)

ParseAnyValue(wire) == IF ChannelType(type) = "STRING" THEN ParseFromStringTypes(wire)
                       ELSE IF ChannelType(type) = "ENUM" THEN ParseFromUnsignedEnumTypes(wire)
                       ELSE IF type.code = "Bool" THEN ParseBooleans(wire)
                       ELSE ParseFromBytes(wire)

VerifyCount(count) == IF type.array THEN count <= type.size ELSE count = 1

(* External: the elements that come with a subscription of the requested type. *)
Wire == [i \in 1..Len(record) |-> Presented(record[i])]

(* GetValueFieldReference: an event that has failed brings none. *)
Comes(failed) == ~failed /\ \A i \in 1..Len(record) : Presentable(record[i])

(* External: assigning the empty value to an element of an array throws, or it *)
(* leaves the element as it was.                                              *)
Kept(v) == [i \in 1..Len(v) |-> IF v[i] = Nothing THEN Default(type.code) ELSE v[i]]

(* CAMonitorWrapper, called by Monitor_CB.  A scalar that cannot be parsed is  *)
(* empty.                                                                     *)
MonitorEvent(failed) ==
  LET parsed == ParseAnyValue(Wire)
      good == /\ Comes(failed)
              /\ VerifyCount(Len(record))
              /\ ~type.array => parsed[1] # Nothing
  IN /\ open
     /\ event' = IF good THEN Kept(parsed) ELSE <<>>
     /\ fresh' = good
     /\ NoCall
     /\ UNCHANGED <<type, open, native, record, mine>>

EventThrows == /\ open
               /\ type.array
               /\ Comes(FALSE)
               /\ VerifyCount(Len(record))
               /\ \E i \in 1..type.size : ParseAnyValue(Wire)[i] = Nothing
               /\ NoEvent
               /\ NoCall
               /\ UNCHANGED <<type, open, native, record, mine>>

------------------------------------------------------------------------------
Elements == {Number(n) : n \in Numbers} \cup {Word(w) : w \in Words}
            \cup {Long(w) : w \in Words} \cup {Decimal(n) : n \in Numbers}

(* Sequences of at most n elements; the longest ones of equal elements. *)
UpTo(n, S) == (UNION {[1..m -> S] : m \in 0..n - 1}) \cup {[i \in 1..n |-> e] : e \in S}

Given == UpTo(type.size + 1, {e \in Elements : type.code = "String" <=> IsText(e)})

(* What others may leave in the record. *)
Contents == UpTo(type.size + 1, {e \in Elements : IF native = "number" THEN ~IsText(e)
                                                  ELSE e.kind \in {"word", "decimal"}})

ConversionInit == /\ type \in Types
                  /\ open = FALSE
                  /\ native \in {"number", "text"}
                  /\ record = <<IF native = "number" THEN Number(0) ELSE Word("")>>
                  /\ request = <<>>
                  /\ answer = "none"
                  /\ mine = <<>>
                  /\ event = <<>>
                  /\ fresh = FALSE

(* AddChannel refuses a type without a channel type. *)
AddChannel == /\ ~open
              /\ ChannelType(type) # "none"
              /\ open' = TRUE
              /\ UNCHANGED <<type, native, record, mine, callVars>>

(* External: another client, or the record itself. *)
OthersPut(contents) == /\ record' = contents
                       /\ mine' = <<>>
                       /\ NoEvent
                       /\ NoCall
                       /\ UNCHANGED <<type, open, native>>

ConversionNext == \/ AddChannel
                  \/ open /\ \E v \in Given, refused \in BOOLEAN : UpdateChannel(v, refused)
                  \/ \E failed \in BOOLEAN : MonitorEvent(failed)
                  \/ EventThrows
                  \/ \E contents \in Contents : OthersPut(contents)

ConversionSpec == ConversionInit /\ [][ConversionNext]_conversionVars

------------------------------------------------------------------------------
(* ca_channel_manager.cpp:201 and ca_helper.cpp:114 are inverse: what the user *)
(* set is what the next successful event brings back, but for the characters  *)
(* of a text behind the 40th, whatever the record makes of it in between.      *)
RoundTrip == mine # <<>> /\ fresh => event = [i \in 1..Len(mine) |-> Cut(mine[i])]

(* channel_access_pv.rst:17: integers of any size may be read as any type that *)
(* can hold them, element by element, if 16 bits can in the case of unsigned    *)
(* ones; elements the record has not got are default ones.  What does not fit  *)
(* becomes something else, but always of the type the user asked for.          *)
Exact(e, c) == IF c = "String" THEN IsText(e)
               ELSE /\ ~IsText(e)
                    /\ Fits(c, e.of)
                    /\ ChannelType(type) = "ENUM" => Fits("UInt16", e.of)

ReadsExactly ==
  fresh => \A i \in 1..type.size :
             /\ Convertible(type.code, event[i])
             /\ IF i <= Len(record) THEN Exact(record[i], type.code) => event[i] = record[i]
                ELSE event[i] = Default(type.code)

(* An element of the record says what the user gave: the number, also where it *)
(* was carried as text, the truth, or 40 characters of the text.  A character   *)
(* below 0 is a byte, which a record takes for a number above 127.             *)
Says(e, given) ==
  IF type.code = "Bool" THEN e.of \in {0, 1} /\ (e.of = 0 <=> given.of = 0)
  ELSE IF type.code = "String" THEN e = Cut(given) \/ (given.kind = "decimal" /\ e = Number(given.of))
  ELSE \/ e.of = given.of
       \/ ChannelType(type) = "CHAR" /\ given.of < 0 /\ e.of = given.of + 256

Written(v) == /\ Len(record') = type.size
              /\ Len(v) = type.size
              /\ \A i \in 1..type.size : Says(record'[i], v[i])

(* Whatever SetValue was given, through conversion, buffer and channel type: the *)
(* record is changed only by a call that returns true, and then each of its     *)
(* elements says what was given.  What does not fit is refused, never cut to    *)
(* another number.                                                            *)
WritesExactly ==
  [][record' # record /\ answer' # "none" => answer' = "true" /\ Written(request')]_conversionVars
==============================================================================
