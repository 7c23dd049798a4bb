--------------------------- MODULE TypeSerializer ---------------------------
(***************************************************************************)
(* How values cross the bridge: TypeSerializer (serialization.py), the     *)
(* type ExecuteTool gives to a result (both servers), the encoding of the  *)
(* arguments of an Elixir tool (session_context.py) and what Elixir reads. *)
(* Pure operators over small Python objects, each a class with its content:*)
(* the name of a number or text for a scalar, the members of a container.  *)
(* Orjson says whether orjson is installed or json is used instead.        *)
(***************************************************************************)
EXTENDS Naturals, Sequences

Scalar(class, at)       == [class |-> class, at |-> at, items |-> <<>>]
Container(class, items) == [class |-> class, at |-> "", items |-> items]
Refused                 == Scalar("refused", "")  \* an exception

\* "1", "2^60" and "10^400" are integers; every other number is a float.
IntOf   == [f \in {"1.0"} |-> "1"]
FloatOf == [i \in {"1", "2^60"} |-> IF i = "1" THEN "1.0" ELSE "2.0^60"]
NotFinite == {"nan", "inf", "-inf"}

IsNumber(v) == v.class \in {"int", "float", "bool"}  \* a bool is an int

\* float(v), of a number: a bool is 0 or 1, a large integer overflows.
AsFloat(v) ==
  CASE v.class = "float" -> v
    [] v.class = "bool"  -> Scalar("float", IF v.at = "True" THEN "1.0" ELSE "0.0")
    [] v.class = "int" /\ v.at \in DOMAIN FloatOf -> Scalar("float", FloatOf[v.at])
    [] OTHER -> Refused

Str(v) == IF v.class = "str" THEN v ELSE [v EXCEPT !.class = "str"]

\* Shape and data of a tensor: ndarray.shape with tolist(), or the keys of a dict.
Tensor(v) == [v EXCEPT !.class = "tensor"]

(***************************************************************************)
(* Encoding.                                                               *)
(***************************************************************************)
Normalized(v, type) ==
  IF v.class = "zero_copy" THEN [v EXCEPT !.class = "dict"] ELSE
  CASE type = "float"   -> IF IsNumber(v) THEN AsFloat(v) ELSE Refused
    [] type = "integer" ->
         IF v.class = "float"
         THEN IF v.at \in DOMAIN IntOf THEN Scalar("int", IntOf[v.at]) ELSE Refused
         ELSE IF IsNumber(v) THEN v ELSE Refused
    [] type \in {"string", "choice", "module"} -> Str(v)
    [] type = "boolean" -> IF v.class = "bool" THEN v ELSE Refused
    [] type = "embedding" ->
         CASE v.class = "ndarray" -> [v EXCEPT !.class = "list"]
           [] v.class = "list" /\ \A i \in DOMAIN v.items : IsNumber(v.items[i])
                -> [v EXCEPT !.items = [i \in DOMAIN v.items |-> AsFloat(v.items[i])]]
           [] OTHER -> Refused
    [] type = "tensor" -> IF v.class \in {"ndarray", "tensor"} THEN Tensor(v) ELSE Refused
    [] OTHER -> v

\* Ten kilobytes at eight bytes a number are, in the model, more than BinaryThreshold
\* members; of a nested list only the outer length counts.
BinaryThreshold == 2

UsesBinary(v, type) ==
  type \in {"tensor", "embedding"} /\ v.class \in {"tensor", "list"}
    /\ Len(v.items) > BinaryThreshold

\* What json.dumps or orjson.dumps writes: default() turns objects into the result of
\* their method, a list, a date or a marker; a tuple is a list.  orjson writes null for a
\* float that is not finite, and refuses a key that is no string and a large integer.
\* Members are scalars here; deeper ones are written the same way.
JsonScalar(v, Orjson) ==
  CASE v.class = "float" /\ v.at \in NotFinite ->
         IF Orjson THEN Scalar("None", "None") ELSE v
    [] v.class = "int" /\ v.at = "10^400" -> IF Orjson THEN Refused ELSE v
    [] v.class = "date" -> Scalar("str", v.at)
    [] v.class \in {"sparse", "opaque", "zero_copy"} -> Scalar("marker", v.class)
    [] OTHER -> v

JsonClass(class) ==
  CASE class \in {"tuple", "ndarray"} -> "list"
    [] class \in {"int_keys", "has_to_dict"} -> "dict"
    [] OTHER -> class

Containers == {"list", "tuple", "ndarray", "dict", "int_keys", "has_to_dict", "tensor"}

Json(v, Orjson) ==
  IF v.class \notin Containers THEN JsonScalar(v, Orjson)
  ELSE LET members == [i \in DOMAIN v.items |-> JsonScalar(v.items[i], Orjson)]
       IN  IF \/ \E i \in DOMAIN members : members[i] = Refused
              \/ v.class = "int_keys" /\ Orjson
           THEN Refused
           ELSE Container(JsonClass(v.class), members)

Serialized(v, type, Orjson) ==
  IF type = "float" /\ v.at \in NotFinite THEN Scalar("str", v.at) ELSE Json(v, Orjson)

NoBinary == Scalar("no binary", "")

\* encode_any: the Any message and the pickled data beside it.
Encoded(v, type, Orjson) ==
  LET n == Normalized(v, type)
  IN  CASE n = Refused -> [url |-> type, value |-> Refused, binary |-> NoBinary]
        [] n # Refused /\ UsesBinary(n, type) ->
             [url |-> type \o ".binary", value |-> Scalar("metadata", type), binary |-> n]
        [] OTHER -> [url |-> type, value |-> Serialized(n, type, Orjson), binary |-> NoBinary]

(***************************************************************************)
(* Decoding.                                                               *)
(***************************************************************************)
\* Mutant of Deserialized: the names of special floats stay strings.
DeserializedPlain(j, type) == j

Deserialized(j, type) ==
  IF type = "float" /\ j.class = "str" /\ j.at \in NotFinite THEN Scalar("float", j.at)
  ELSE IF type = "integer" /\ j.class = "bool"
  THEN Scalar("int", IF j.at = "True" THEN "1" ELSE "0")
  ELSE j

\* decode_any: the data of a binary message, or the JSON converted by the type.
Decoded(m) ==
  IF m.binary # NoBinary THEN m.binary ELSE Deserialized(m.value, m.url)

(***************************************************************************)
(* Results of tools and arguments of Elixir tools.                         *)
(***************************************************************************)
\* Mutant of ResultType: numbers are looked for before bools.
ResultTypeNumbersFirst(v) ==
  CASE IsNumber(v) -> "float"
    [] v.class \in {"dict", "int_keys", "tensor"} -> "map"
    [] v.class = "list" -> "list"
    [] OTHER -> "string"

ResultType(v) ==
  CASE v.class = "bool" -> "boolean"
    [] v.class \in {"dict", "int_keys", "tensor"} -> "map"
    [] v.class \in {"int", "float"} -> "float"
    [] v.class = "list" -> "list"
    [] OTHER -> "string"

ToolResult(v, Orjson) == Encoded(v, ResultType(v), Orjson)

\* Jason.decode of the value; the token NaN is no JSON, and the raw bytes are returned.
IsJsonScalar(j) == ~(j.class = "float" /\ j.at \in NotFinite)

IsJson(j) == IsJsonScalar(j) /\ \A i \in DOMAIN j.items : IsJsonScalar(j.items[i])

ElixirReads(m) == IF IsJson(m.value) THEN m.value ELSE Scalar("raw", "")

\* call_elixir_tool: numbers, and so bools, as JSON; all else as a StringValue of str().
ElixirArgument(v) == IF IsNumber(v) THEN Json(v, FALSE) ELSE Str(v)

-----------------------------------------------------------------------------
(* Bounded inputs and the reference                                        *)

Scalars ==
  {Scalar("None", "None"), Scalar("bool", "True"), Scalar("bool", "False"),
   Scalar("int", "1"), Scalar("int", "2^60"), Scalar("int", "10^400"),
   Scalar("float", "1.0"), Scalar("float", "1.5"), Scalar("float", "nan"),
   Scalar("float", "inf"), Scalar("float", "-inf"), Scalar("str", "text"),
   Scalar("date", "2026-01-01"), Scalar("sparse", "sparse"),
   Scalar("opaque", "object"), Scalar("zero_copy", "handle")}

Lists == UNION {[1..n -> Scalars] : n \in 0..2} \cup {[i \in 1..3 |-> x] : x \in Scalars}

Objects ==
  Scalars \cup
  {Container(class, items) :
     class \in Containers, items \in Lists}

Types == {"float", "integer", "string", "choice", "module", "boolean", "embedding",
          "tensor", "map", "list"}

\* Plain data: what JSON itself can say.
IsPlainScalar(x) ==
  \/ x.class \in {"None", "bool", "str"}
  \/ x.class = "int" /\ x.at # "10^400"
  \/ x.class = "float" /\ x.at \notin NotFinite

IsPlain(v) == IF v.class \in {"list", "dict"} THEN \A i \in DOMAIN v.items : IsPlainScalar(v.items[i])
              ELSE IsPlainScalar(v)

\* The value a typed variable stands for, whatever Python class carries it.
Meaning(v, type) ==
  CASE type = "float"   -> AsFloat(v)
    [] type = "integer" ->
         CASE v.class = "bool"  -> Scalar("int", IF v.at = "True" THEN "1" ELSE "0")
           [] v.class = "float" -> Scalar("int", IntOf[v.at])
           [] OTHER -> v
    [] type = "embedding" /\ v.class = "list" ->
         Container("list", [i \in DOMAIN v.items |-> AsFloat(v.items[i])])
    [] type = "embedding" /\ v.class # "list" -> Container("list", v.items)
    [] type = "tensor" -> Container("tensor", v.items)
    [] OTHER -> v

Numbers(v) == \A i \in DOMAIN v.items : IsNumber(v.items[i]) /\ AsFloat(v.items[i]) # Refused

AllFinite(v) == \A i \in DOMAIN v.items : v.items[i].at \notin NotFinite

\* A typed number, embedding or tensor that encode_any accepts is what decode_any
\* returns, on the JSON path and on the binary one, special floats included; only
\* orjson loses the special floats inside a container it writes as JSON
\* (TypeSerializer, _normalize_value, _serialize_value, _deserialize_value).
RoundTrip ==
  \A type \in {"float", "integer", "boolean", "embedding", "tensor"}, Orjson \in BOOLEAN :
    \A v \in {u \in Objects : Numbers(u) /\ u.class # "zero_copy"} :
      LET m == Encoded(v, type, Orjson) IN
      (m.value # Refused /\ (Orjson => AllFinite(v) \/ m.binary # NoBinary))
        => Decoded(m) = Meaning(v, type)

\* Whatever a tool returns, its result is encoded and the call answered with success
\* (integers beyond a float and keys or integers orjson cannot write excepted); plain
\* data but None is what Elixir reads, an integer on its own as a float, and a bool
\* stays a bool on both ways (ExecuteTool, call_elixir_tool).
ResultsReadable ==
  \A Orjson \in BOOLEAN, v \in Objects :
    LET m == ToolResult(v, Orjson) IN
    /\ m.value = Refused =>
         \/ v.at = "10^400"
         \/ Orjson /\ (v.class = "int_keys" \/ \E i \in DOMAIN v.items : v.items[i].at = "10^400")
    /\ IsPlain(v) /\ v.class # "None" =>
         ElixirReads(m) = IF v.class = "int" THEN AsFloat(v) ELSE v
    /\ IsPlainScalar(v) /\ v.class # "None" => ElixirArgument(v) = v
=============================================================================
