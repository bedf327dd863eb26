------------------------------- MODULE Keying -------------------------------
(***************************************************************************)
(* The routing key of a request (routing/keying.py): its prompt is cut     *)
(* into units, the units into blocks, and each block is hashed together    *)
(* with the hash before it.                                                *)
(*                                                                         *)
(* A request stands for its messages (module Messages).  A reference to    *)
(* inlined data has a type and a payload; any other is all payload.        *)
(* SHA-256 has no collisions: a hash is the pair that is hashed, and a     *)
(* marker what it identifies the image by.                                 *)
(***************************************************************************)
EXTENDS Messages

CONSTANTS
    BlockSize,
    ByUrl  \* image_key is "url", else "bytes_sha256"

ASSUME BlockSizeAssumption == BlockSize \in Int

\* max(1, block_size).
Step == IF BlockSize < 1 THEN 1 ELSE BlockSize

Unit(kind, value) == <<kind, value>>

ImageMarker(ref) == IF ByUrl THEN <<ref.type, ref.payload>> ELSE ref.payload

UnitsOf(message) ==
    LET words == WordsOf(message)
        images == ImagesOf(message)
    IN  << Unit("role", message.role) >>
            \o [i \in DOMAIN words |-> Unit("word", words[i].value)]
            \o [i \in DOMAIN images |-> Unit("image", ImageMarker(images[i].value))]

Units(request) ==
    LET upTo[n \in 0..Len(request)] ==
            IF n = 0 THEN << >> ELSE upTo[n - 1] \o UnitsOf(request[n])
    IN  upTo[Len(request)]

\* The i-th block; the last one may be short.
Block(units, i) ==
    SubSeq(units, (i - 1) * Step + 1, IF i * Step < Len(units) THEN i * Step ELSE Len(units))

\* Mutant: a block is hashed by itself.
HashAlone(prev, block) == << << >>, block >>

Hash(prev, block) == <<prev, block>>

\* build_routing_key.
RoutingKey(request) ==
    LET units == Units(request)
        count == (Len(units) + Step - 1) \div Step
        prev[i \in 0..count] == IF i = 0 THEN << >> ELSE Hash(prev[i - 1], Block(units, i))
    IN  [i \in 1..count |-> prev[i]]
=============================================================================
