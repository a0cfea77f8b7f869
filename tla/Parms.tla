------------------------------- MODULE Parms --------------------------------
(***************************************************************************)
(* How arguments of game functions cross between Lua and the game:         *)
(* parse_param (plugin_runtime.cpp), read_struct_layout (reflect_layout    *)
(* .cpp), encode_parms (parms_encode.cpp), decode_parms (parms_decode.cpp) *)
(* and the names of fname_pool.cpp.                                        *)
(*                                                                         *)
(* A value is a tree of nodes [kind, name, number, text, items], the shape *)
(* of ParamInput and EventArg.  Memory is a sequence of buffers: the       *)
(* parameters first, then the pools.  A byte is a digit to the base Base;  *)
(* a pointer and a 32-bit count each take one cell, a pointer is the       *)
(* number of a buffer.  Lengths, limits and the base are constants.        *)
(* Floating-point fields hold the number itself: their rounding, and the   *)
(* casts of numbers that do not fit, which C++ leaves undefined, are left  *)
(* out.                                                                    *)
(***************************************************************************)
EXTENDS Utf, Integers

CONSTANTS
  Base,        \* 256
  MaxDepth,    \* 8: kMaxStructDepth, kMaxDepth and the limit of parse_param
  MaxItems,    \* 4096: elements of an array
  MaxChars,    \* 65536: units of a string that is read
  MaxFields,   \* 512: properties of a struct
  Pool         \* FNamePool: blocks of entries [wide, units]

ASSUME ParmsAssumptions == {Base, MaxDepth, MaxItems, MaxChars, MaxFields} \subseteq Nat \ {0}

Node(kind, name, number, text, items) ==
  [kind |-> kind, name |-> name, number |-> number, text |-> text, items |-> items]
Number(name, n) == Node("number", name, n, <<>>, <<>>)
Text(name, t) == Node("text", name, 0, t, <<>>)
Array(name, items) == Node("array", name, 0, <<>>, items)
Struct(name, items) == Node("struct", name, 0, <<>>, items)

-----------------------------------------------------------------------------
(* Names.  An index is a block and a position in it; 0 is None.            *)

BlockSpan == Max({Len(Pool[b]) : b \in DOMAIN Pool})

Resolve(index) ==
  LET b == index \div BlockSpan + 1
      k == (index % BlockSpan) + 1
  IN IF index = 0 \/ b \notin DOMAIN Pool \/ k \notin DOMAIN Pool[b] THEN <<>>
     ELSE IF Pool[b][k].wide THEN ToUtf8(Pool[b][k].units)
     ELSE FlattenSeq([i \in DOMAIN Pool[b][k].units |-> Bytes(Pool[b][k].units[i])])

(* lookup: the first narrow entry with these bytes, else 0. *)
Lookup(name) ==
  LET same == {<<b, k>> \in (DOMAIN Pool) \X (1 .. BlockSpan) :
                 /\ k \in DOMAIN Pool[b] /\ ~Pool[b][k].wide
                 /\ name = [i \in DOMAIN Pool[b][k].units |-> <<1, Pool[b][k].units[i]>>]}
      index(at) == (at[1] - 1) * BlockSpan + at[2] - 1
  IN IF same = {} THEN 0 ELSE Min({index(at) : at \in same})

-----------------------------------------------------------------------------
(* parse_param: the Lua value v, which ends at its first NUL if a string.  *)

RECURSIVE ParseParam(_, _)
ParseParam(v, depth) ==
  LET nul == SelectInSeq(v.text, LAMBDA byte : byte = <<1, 0>>)
      text == IF nul = 0 THEN v.text ELSE SubSeq(v.text, 1, nul - 1)
      kept == IF v.kind = "array" /\ Len(v.items) > MaxItems
              THEN SubSeq(v.items, 1, MaxItems) ELSE v.items
  IN IF depth > MaxDepth THEN Number(v.name, 0)
     ELSE [v EXCEPT !.text = text,
                    !.items = [i \in DOMAIN kept |-> ParseParam(kept[i], depth + 1)]]

(* The arguments of pal.call are the members of the table. *)
ParseArgs(items) == ParseParam(Struct("", items), 0).items

-----------------------------------------------------------------------------
(* read_struct_layout: the properties of a function or struct, as far as   *)
(* the depth reaches.  The game's own properties have the same shape.      *)

RECURSIVE Layout(_, _)
Layout(properties, depth) ==
  IF depth > MaxDepth THEN <<>>
  ELSE [i \in 1 .. Min({Len(properties), MaxFields}) |->
          [properties[i] EXCEPT !.fields = Layout(properties[i].fields, depth + 1)]]

Widths == [Int |-> 4, UInt |-> 4, Int16 |-> 2, UInt16 |-> 2, Int8 |-> 1, Byte |-> 1, Enum |-> 1]
Numeric == DOMAIN Widths

Cells(p) ==
  CASE p.type \in Numeric -> Widths[p.type]
    [] p.type \in {"Str", "Array"} -> 3
    [] p.type = "Name" -> 2
    [] p.type = "Struct" -> p.size
    [] OTHER -> 1

LayoutSize(fields) == Max({0} \cup {fields[i].offset + Cells(fields[i]) : i \in DOMAIN fields})

-----------------------------------------------------------------------------
(* Memory.                                                                 *)

ZeroBased(cells) == [i \in 0 .. Len(cells) - 1 |-> cells[i + 1]]
Zeroed(n) == [i \in 0 .. n - 1 |-> 0]
Write(mem, b, off, cells) ==
  [mem EXCEPT ![b] = [i \in DOMAIN @ |->
     IF i \in off .. off + Len(cells) - 1 THEN cells[i - off + 1] ELSE @[i]]]
Read(mem, b, off, n) == [i \in 1 .. n |-> mem[b][off + i - 1]]

Digits(n, w) == [i \in 1 .. w |-> ((n % (Base ^ w)) \div Base ^ (i - 1)) % Base]
Unsigned(cells) == FoldRight(LAMBDA c, n : n * Base + c, cells, 0)
Signed(cells) ==
  LET n == Unsigned(cells) w == Base ^ Len(cells)
  IN IF 2 * n < w THEN n ELSE n - w

-----------------------------------------------------------------------------
(* encode_parms.  A header is a pointer to a pool, Num and Max.            *)

EncodeStr(mem, b, off, text) ==
  LET units == Append(ToUtf16(text), 0)
  IN IF text = <<>> THEN Write(mem, b, off, <<0, 0, 0>>)
     ELSE Write(Append(mem, ZeroBased(units)), b, off, <<Len(mem) + 1, Len(units), Len(units)>>)

EncodeScalar(mem, b, off, type, input) ==
  CASE type \in Numeric -> Write(mem, b, off, Digits(input.number, Widths[type]))
    [] type = "Bool" -> Write(mem, b, off, <<IF input.number # 0 THEN 1 ELSE 0>>)
    [] type = "Double" -> Write(mem, b, off, <<input.number>>)
    [] type = "Name" -> Write(mem, b, off, <<Lookup(input.text), 0>>)
    [] OTHER -> mem

RECURSIVE EncodeFields(_, _, _, _, _, _)

(* Mutant of Stride. *)
OneCell(param) == 1
Stride(param) == param.innerSize

EncodeArray(mem, b, off, param, input, depth) ==
  LET count == Len(input.items)
      pool == Len(mem) + 1
      at(i) == (i - 1) * Stride(param)
      element(m, i) ==
        IF param.inner = "Struct" /\ param.fields # <<>>
        THEN IF depth < MaxDepth
             THEN EncodeFields(m, pool, at(i), param.fields, input.items[i].items, depth + 1)
             ELSE m
        ELSE IF param.inner = "Str" THEN EncodeStr(m, pool, at(i), input.items[i].text)
        ELSE EncodeScalar(m, pool, at(i), param.inner, input.items[i])
      filled == FoldLeft(element, Append(mem, Zeroed(count * param.innerSize)),
                         [i \in 1 .. count |-> i])
  IN IF input.kind # "array" \/ count = 0 \/ param.innerSize = 0
     THEN Write(mem, b, off, <<0, 0, 0>>)
     ELSE Write(filled, b, off, <<pool, count, count>>)

(* A parameter without an input stays zero. *)
EncodeFields(mem, b, base, params, inputs, depth) ==
  LET field(m, param) ==
        LET at == SelectInSeq(inputs, LAMBDA input : input.name = param.name)
            off == base + param.offset
        IN CASE at = 0 -> m
             [] at # 0 /\ param.type = "Array" ->
                  EncodeArray(m, b, off, param, inputs[at], depth)
             [] at # 0 /\ param.type = "Struct" ->
                  IF depth < MaxDepth
                  THEN EncodeFields(m, b, off, param.fields, inputs[at].items, depth + 1)
                  ELSE m
             [] at # 0 /\ param.type = "Str" -> EncodeStr(m, b, off, inputs[at].text)
             [] OTHER -> EncodeScalar(m, b, off, param.type, inputs[at])
  IN FoldLeft(field, mem, params)

Encode(params, inputs) == EncodeFields(<<Zeroed(LayoutSize(params))>>, 1, 0, params, inputs, 0)

-----------------------------------------------------------------------------
(* decode_parms; signed is the set of types that are read as signed.       *)

(* Mutant of DecodeSigned. *)
ByteOnly == {"Int8", "Byte"}

(* ByteProperty is read as int8_t. *)
DecodeSigned == {"Int", "Int16", "Int8", "Byte"}

DecodeStr(mem, b, off) ==
  LET header == Read(mem, b, off, 3)
      chars == Min({header[2] - 1, MaxChars})
  IN IF header[1] = 0 \/ header[2] <= 1 THEN <<>> ELSE ToUtf8(Read(mem, header[1], 0, chars))

Scalars == Numeric \cup {"Bool", "Double", "Object", "Str", "Name"}
DecodeScalar(mem, b, off, type, name, signed) ==
  CASE type \in Numeric ->
         LET cells == Read(mem, b, off, Widths[type])
         IN Number(name, IF type \in signed THEN Signed(cells) ELSE Unsigned(cells))
    [] type = "Bool" -> Number(name, IF mem[b][off] # 0 THEN 1 ELSE 0)
    [] type \in {"Double", "Object"} -> Number(name, mem[b][off])
    [] type = "Str" -> Text(name, DecodeStr(mem, b, off))
    [] type = "Name" ->
         Text(name, Resolve(mem[b][off]) \o
                      IF mem[b][off + 1] > 0 THEN << <<1, 1>>, <<1, mem[b][off + 1] - 1>> >> ELSE <<>>)

RECURSIVE DecodeFields(_, _, _, _, _, _)

(* Elements that cannot be decoded end the array. *)
DecodeArray(mem, b, off, param, depth, signed) ==
  LET header == Read(mem, b, off, 3)
      count == Min({header[2], MaxItems})
      element(i) ==
        LET at == (i - 1) * param.innerSize
        IN IF param.inner = "Struct" /\ param.fields # <<>>
           THEN Struct("", IF depth < MaxDepth
                           THEN DecodeFields(mem, header[1], at, param.fields, depth + 1, signed)
                           ELSE <<>>)
           ELSE DecodeScalar(mem, header[1], at, param.inner, "", signed)
      readable == param.inner \in Scalars \/ (param.inner = "Struct" /\ param.fields # <<>>)
  IN Array(param.name, IF header[1] = 0 \/ header[2] <= 0 \/ param.innerSize = 0 \/ ~readable
                       THEN <<>> ELSE [i \in 1 .. count |-> element(i)])

(* Unsupported types are skipped. *)
DecodeFields(mem, b, base, params, depth, signed) ==
  LET shown == SelectSeq(params, LAMBDA p : p.type \in Scalars \cup {"Array", "Struct"})
      field(p) ==
        CASE p.type = "Array" -> DecodeArray(mem, b, base + p.offset, p, depth, signed)
          [] p.type = "Struct" ->
               Struct(p.name, IF depth < MaxDepth
                              THEN DecodeFields(mem, b, base + p.offset, p.fields, depth + 1, signed)
                              ELSE <<>>)
          [] OTHER -> DecodeScalar(mem, b, base + p.offset, p.type, p.name, signed)
  IN [i \in DOMAIN shown |-> field(shown[i])]

Decode(mem, params, signed) == DecodeFields(mem, 1, 0, params, 0, signed)
=============================================================================
