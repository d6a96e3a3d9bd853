--------------------------- MODULE ObjectRecord ----------------------------
(***************************************************************************)
(* The Binary Object Record of object_record.c.                            *)
(*                                                                         *)
(* A byte string is the structure its fields are read from.  An optional   *)
(* field is its presence byte and a sequence of no or one value.  SHA-256  *)
(* is an injective constructor over its input.                             *)
(***************************************************************************)
EXTENDS Naturals, Sequences

CONSTANT Garbage    \* what an uninitialized size_bytes may hold

K501_BOR_SCHEMA == "K501-OBJECT-2.0-ALPHA"
K501_OID_DOMAIN == "K501-OID-V2A"
ObjectType == 1 .. 4    \* regular file, directory, symlink, other
Flag       == 0 .. 1    \* the legal values of a presence or boolean byte

Sha256(x) == <<"sha256", x>>
Byte(b)   == IF b THEN 1 ELSE 0

ComputeObjectId(r) ==
  Sha256(<<K501_OID_DOMAIN, r.schema, r.root_id, r.path, r.object_type>>)

\* The canonical bytes of a record, before the trailing hash.
SerializePrefix(r) ==
  [schema |-> r.schema, object_id |-> r.object_id, root_id |-> r.root_id,
   path |-> r.path, object_type |-> r.object_type,
   size_present |-> Byte(r.size_present),
   size_bytes |-> IF r.size_present THEN <<r.size_bytes>> ELSE <<>>,
   content_present |-> Byte(r.content_present),
   content_sha256 |-> IF r.content_present THEN <<r.content_sha256>> ELSE <<>>,
   stamp |-> r.stamp, readable |-> Byte(r.readable)]

\* Refused unless the type is legal and the identity is the record's own.
CanSerialize(r) == r.object_type \in ObjectType /\ ComputeObjectId(r) = r.object_id

SerializeRecord(r) == [prefix |-> SerializePrefix(r), record_hash |-> Sha256(SerializePrefix(r))]

\* A presence byte that disagrees with the bytes behind it shifts every later
\* field: the parse runs out of bytes, or leaves some over, or its bytes no
\* longer hash to record_hash.
Aligned(p) == /\ p.size_present = Len(p.size_bytes)
              /\ p.content_present = Len(p.content_sha256)

CanDecode(buf) ==
  LET p == buf.prefix
  IN  /\ p.schema = K501_BOR_SCHEMA
      /\ p.object_type \in ObjectType
      /\ {p.size_present, p.content_present, p.readable} \subseteq Flag
      /\ Aligned(p)

\* size_bytes is assigned from a local that is only set when a size is present,
\* so an absent size leaves `g`; the memset leaves an absent content hash zero.
Decode(buf, g) ==
  LET p == buf.prefix
  IN  [schema |-> p.schema, object_id |-> p.object_id, root_id |-> p.root_id,
       path |-> p.path, object_type |-> p.object_type,
       size_present |-> p.size_present = 1,
       size_bytes |-> IF p.size_present = 1 THEN p.size_bytes[1] ELSE g,
       content_present |-> p.content_present = 1,
       content_sha256 |-> IF p.content_present = 1 THEN p.content_sha256[1] ELSE <<>>,
       stamp |-> p.stamp, readable |-> p.readable = 1,
       record_hash |-> buf.record_hash]

RecordVerify(buf, g) ==
  /\ CanDecode(buf)
  /\ LET d == Decode(buf, g)
     IN  CanSerialize(d) /\ Sha256(SerializePrefix(d)) = d.record_hash
=============================================================================
