-------------------------------- MODULE Encoding -------------------------------
(***************************************************************************)
(* The byte layouts of rows and keys (executor/row.go, encodeKeyValue of   *)
(* executor/delete.go) and of table and index definitions                  *)
(* (catalog/encoding.go), as operators from records to sequences of bytes  *)
(* and back.  A rune is one byte, its place in Alphabet.  Offsets count    *)
(* bytes from 0, as in the code.                                           *)
(***************************************************************************)
EXTENDS Expressions

--------------------------------------------------------------------------------
(* Fields *)

\* encoding/binary on integers below 2^31: the higher bytes extend the sign.
BigEndian(n, width) ==
  [j \in 1..width |-> IF width - j > 3 THEN (IF n < 0 THEN 255 ELSE 0)
                      ELSE (n \div 256 ^ (width - j)) % 256]
Slice(data, at, n) == SubSeq(data, at + 1, at + n)
Uint(data, at, width) == FoldLeft(LAMBDA n, b : 256 * n + b, 0, Slice(data, at, width))
Int64At(data, at) == FoldLeft(LAMBDA n, b : 256 * n + b,
                              IF data[at + 1] >= 128 THEN -1 ELSE 0, Slice(data, at, 8))

\* math.Float64bits: some injection into eight bytes.
Float64bits(f) == BigEndian(f[1], 4) \o BigEndian(f[2], 4)
Float64frombits(data, at) ==
  <<FoldLeft(LAMBDA n, b : 256 * n + b, IF data[at + 1] >= 128 THEN -1 ELSE 0,
             Slice(data, at, 4)), Uint(data, at + 4, 4)>>

Bytes(text) == [i \in DOMAIN text |-> Rank[text[i]]]
TextOf(bytes) == [i \in DOMAIN bytes |-> Alphabet[bytes[i]]]

\* A text after its length; ReadText returns it with the offset after it.
Prefixed(text) == BigEndian(Len(text), 4) \o Bytes(text)
ReadText(data, at) == LET n == Uint(data, at, 4)
                      IN <<TextOf(Slice(data, at + 4, n)), at + 4 + n>>

GetBit(b, position) == (b \div 2 ^ position) % 2 = 1
Flags(bits) == MapThenSumSet(LAMBDA i : 2 ^ (i - 1), {i \in DOMAIN bits : bits[i]})

\* A value that is not NULL, written and read by the type of its column.
ValueBytes(value, type) == CASE type = "INT"   -> BigEndian(value.IntVal, 8)
                             [] type = "FLOAT" -> Float64bits(value.FloatVal)
                             [] type = "TEXT"  -> Prefixed(value.TextVal)
ReadValue(data, at, type) ==
  CASE type = "INT"   -> <<IntValue(Int64At(data, at)), at + 8>>
    [] type = "FLOAT" -> <<FloatValue(Float64frombits(data, at)), at + 8>>
    [] type = "TEXT"  -> LET read == ReadText(data, at) IN <<TextValue(read[1]), read[2]>>

--------------------------------------------------------------------------------
(* Rows: a bitmap of the NULLs, then the other values *)

BitmapSize(columns) == (Len(columns) + 7) \div 8
Bitmap(values) == [k \in 1..BitmapSize(values) |->
  Flags([i \in 1..8 |-> 8 * (k - 1) + i <= Len(values) /\ values[8 * (k - 1) + i].IsNull])]

encodeRow(values, columns) ==
  Bitmap(values) \o FlattenSeq([i \in DOMAIN values |->
     IF values[i].IsNull THEN <<>> ELSE ValueBytes(values[i], columns[i].Type)])

checkBit(data, i) == GetBit(data[(i - 1) \div 8 + 1], (i - 1) % 8)

\* The checks for truncated data: the fixed part of a value, then all of it.
Fits(data, at, type) ==
  IF type = "TEXT" THEN at + 4 <= Len(data) /\ at + 4 + Uint(data, at, 4) <= Len(data)
  ELSE at + 8 <= Len(data)

\* As decodeRow, but a row is a set with one element, or empty for an error.
decodeRow(data, columns) ==
  LET next(r, i) == CASE checkBit(data, i) -> [r EXCEPT !.row = Append(@, NullValue)]
                      [] ~checkBit(data, i) /\ Fits(data, r.at, columns[i].Type) ->
                           LET read == ReadValue(data, r.at, columns[i].Type)
                           IN [r EXCEPT !.row = Append(@, read[1]), !.at = read[2]]
                      [] OTHER -> [r EXCEPT !.ok = FALSE]
      start == [ok |-> Len(data) >= BitmapSize(columns), at |-> BitmapSize(columns), row |-> <<>>]
      end == FoldLeft(LAMBDA r, i : IF r.ok THEN next(r, i) ELSE r, start,
                      [i \in DOMAIN columns |-> i])
  IN IF end.ok THEN {end.row} ELSE {}

\* The key of a B+ tree; NULL and floats have none.
HasKey(value, type) == ~value.IsNull /\ type \in {"INT", "TEXT"}
encodeKeyValue(value, type) == IF type = "INT" THEN BigEndian(value.IntVal, 8)
                               ELSE Bytes(value.TextVal)

--------------------------------------------------------------------------------
(* Definitions *)

TypeCodes == <<"INT", "FLOAT", "TEXT">>
FKActions == <<"RESTRICT", "CASCADE", "SET NULL">>
Code(codes, name) == (CHOOSE i \in DOMAIN codes : codes[i] = name) - 1

\* Default is a sequence of at most one value.
DefaultBytes(column) ==
  FlattenSeq([i \in DOMAIN column.Default |->
     IF column.Default[i].IsNull THEN <<1>>
     ELSE <<0>> \o ValueBytes(column.Default[i], column.Type)])
\* Plausible slip: two flags are exchanged.
ColumnBytesSwapped(column) ==
  Prefixed(column.Name) \o <<Code(TypeCodes, column.Type)>>
  \o <<Flags(<<column.PrimaryKey, column.Default # <<>>, column.NotNull>>)>>
  \o DefaultBytes(column)
ColumnBytes(column) ==
  Prefixed(column.Name) \o <<Code(TypeCodes, column.Type)>>
  \o <<Flags(<<column.PrimaryKey, column.NotNull, column.Default # <<>> >>)>>
  \o DefaultBytes(column)
KeyBytes(key) ==
  Prefixed(key.ColumnName) \o Prefixed(key.RefTable) \o Prefixed(key.RefColumn)
  \o <<Code(FKActions, key.OnDelete), Code(FKActions, key.OnUpdate)>>

encodeTableDef(def) ==
  <<1>> \o Prefixed(def.Name)
  \o BigEndian(Len(def.Columns), 2) \o FlattenSeq([i \in DOMAIN def.Columns |-> ColumnBytes(def.Columns[i])])
  \o BigEndian(Len(def.ForeignKeys), 2)
  \o FlattenSeq([i \in DOMAIN def.ForeignKeys |-> KeyBytes(def.ForeignKeys[i])])
  \o BigEndian(def.RootPageID, 4)

\* Each reader returns what it read and the offset after it.
ReadDefault(data, at, type) ==
  IF data[at + 1] = 0 THEN ReadValue(data, at + 1, type) ELSE <<NullValue, at + 1>>
ReadColumn(data, at) ==
  LET name == ReadText(data, at)
      type == TypeCodes[data[name[2] + 1] + 1]
      flags == data[name[2] + 2]
      default == ReadDefault(data, name[2] + 2, type)
      has == GetBit(flags, 2)
  IN <<[Name |-> name[1], Type |-> type, PrimaryKey |-> GetBit(flags, 0),
        NotNull |-> GetBit(flags, 1), Default |-> IF has THEN <<default[1]>> ELSE <<>>],
       IF has THEN default[2] ELSE name[2] + 2>>
ReadKey(data, at) ==
  LET column == ReadText(data, at)
      table == ReadText(data, column[2])
      ref == ReadText(data, table[2])
      action(i) == FKActions[data[ref[2] + i] + 1]
  IN <<[ColumnName |-> column[1], RefTable |-> table[1], RefColumn |-> ref[1],
        OnDelete |-> action(1), OnUpdate |-> action(2)], ref[2] + 2>>

\* A count of items, then the items.
ReadItems(data, at, item(_, _)) ==
  FoldLeft(LAMBDA r, i : LET read == item(data, r[2]) IN <<Append(r[1], read[1]), read[2]>>,
           <<<<>>, at + 2>>, [i \in 1..Uint(data, at, 2) |-> i])

decodeTableDef(data) ==
  LET name == ReadText(data, 1)
      columns == ReadItems(data, name[2], ReadColumn)
      keys == ReadItems(data, columns[2], ReadKey)
  IN [Name |-> name[1], Columns |-> columns[1], ForeignKeys |-> keys[1],
      RootPageID |-> Uint(data, keys[2], 4)]

encodeIndexDef(def) ==
  <<2>> \o Prefixed(def.Name) \o Prefixed(def.TableName) \o Prefixed(def.ColumnName)
  \o <<IF def.Unique THEN 1 ELSE 0>> \o BigEndian(def.RootPageID, 4)

decodeIndexDef(data) ==
  LET name == ReadText(data, 1)
      table == ReadText(data, name[2])
      column == ReadText(data, table[2])
  IN [Name |-> name[1], TableName |-> table[1], ColumnName |-> column[1],
      Unique |-> data[column[2] + 1] = 1, RootPageID |-> Uint(data, column[2] + 1, 4)]
================================================================================
