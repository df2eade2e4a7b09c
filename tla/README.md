# A TLA+ verification of libacorn

libacorn is a small C++ runtime for desktop programs written in JavaScript: a
base library (strings, a variant type, byte streams), a `fetch()` on the
platform's HTTP stack, and a tree of views over native ones. This directory
holds TLA+ models of its own code, the TLC configurations that check them on
small instances and TLAPS proofs for all instances. Of the vendored script engine
(`src/js/quickjs.c`) only promises and the job queue are modelled, because the
answer of a `fetch()` goes through them.

The repository has no tests and no documents. What the code promises is said in
the comments of its headers (`string_.h`, `val.h`, `view.h`) and in its
assertions, and this is what the properties are taken from.

## 1. Inventory

| component | source | state | operations | correct when |
|---|---|---|---|---|
| **string** | `base/string.cpp`, `base/string_.h` | per object `_buf`, `_cb`, 24-bit `_offset`, `_type` (standard: a reference-counted heap buffer; static: a literal); per buffer `refs`, `cap`, `cb`, bytes | constructors, copy, move, `substr`, `trim`, `assign`, `insert`/`append`, `erase`, `c_str`, `clear`, `mutateToStatic`, `alloc` | the count in the header is the number of users; slices stay inside buffers; a string changes only through calls on it; `c_str()` is its text |
| **val** | `base/val.cpp`, `base/val.h` | a type tag and a union that owns a string, a vector, a map, a byte array or a pointer to a `shared_ptr`; process-wide empty values | copy, move, assign, `set`, `get`, `unset`, `appendVal`, refs accessors, `parse`, `serialize` | copies are independent; every owned pointer is freed once; `parse` ends and accepts what the comments describe |
| **bytestream, bytearray** | `base/bytestream.*`, `base/bytearray.*` | buffer, capacity, read and write offset, end-of-file flag | `write*`, `read*`, growth, `read(val)`/`write(val)` | what is written is read back; nothing beyond it is read |
| **views, windows** | `ux/view.*`, `ux/window.*` | subview and superview links, rectangles, style, handlers, tracking area, native view | `addView`, `findView`, `layout`, handler setters, `applyStyle`, `close` | the links form a forest; a handler is delivered while it is set; a layout does not exceed the rectangle it was given |
| **controls** | `ux/button.cpp`, `ux/textview.*`, `ux/imageview.*` | text, image, click handler | `measure`, the click | a control fits the rectangle it is measured for |
| **fetch** | `lib/http.cpp`, `lib/fetch.js` | in-flight request with references to the promise's functions and the caller; headers | `httpreq`, the completion on the main queue, `Headers` | every request settles its promise once and releases what it retained |
| **promises and jobs** | `js/quickjs.c:47860-48740` | state and result of a promise, reactions, `already_resolved` flags, the job list | resolving functions, `then`, reaction and thenable jobs, the rejection tracker | a promise settles once, with the outcome it was resolved with; every reaction runs, in order |
| script binding | `libacorn.h`, `base/object.*`, `base/error.*` | none of its own | conversion traits | - |
| platform glue | `ux/nsview.*`, `base/macos.mm` | AppKit objects | I/O | - |
| hashing, logging | `base/hash.*`, `base/logging.*` | none | pure arithmetic, output | - |

**How they interact.** A string's buffers are shared by every part that copies
strings: map keys and string values in `val`, view ids, headers. `bytestream`
fills strings through `alloc()`, the only writer of a string's bytes outside
the class. `val` is the currency between script, layout styles and streams.
Views call the native view and are called back by it. `fetch` is the only code
whose effects arrive later: the completion runs on a network thread, posts a
block to the main queue, the block resolves a promise, and the promise queues
jobs that the main loop runs.

**What is hard.** The base library is used on one thread; its difficulty is
not interleaving but *sequences of legal calls*: which string owns a buffer
alone, which one is a slice, which holds a literal, depends on the whole
history, and one call decides by two of these facts whether it may write in
place. Numeric edges (empty, swapped, past-the-end ranges; unsigned wrap) and
pointers taken before a reallocation come next. `fetch` and the native views
add asynchrony. `PROJECT.json` lists
the hazards the properties are about, each at its line; the others that were met are
named in the sections below.

## 2. Plan

1. `StringValue`, `AcornString`, `AcornStringProofs`: the
   string class, which everything else rests on. *Done.*
2. `Val`, `ValProofs`: value semantics of assignment, ownership of what the union
   points at and the shared empty value, over trees of vals. *Done.*
3. `ByteStream`, `ByteStreamProofs`, `ValStream`, `ValStreamProofs`: cursors, growth,
   short reads, the round trip of vals. *Done.*
4. `Promise`, `Fetch`, `FetchProofs`, `PromiseProofs`: requests,
   completions on the main queue, promises and jobs, with fairness. `Fetch` composes the
   network, the main queue and the promises of the engine. *Done.*
5. `ViewTree`, `ViewTreeProofs`: links, handlers and tracking areas, ownership
   on both sides, closing. *Done.*
6. `StringText`, `ValParse`: searches as operators, the parser and the JSON
   writer against each other. *Done.*
7. `Layout`, `LayoutProofs`: `measure` and `layout`, for small trees by TLC and for
   all trees by proof. *Done.*

## 3. The string class

### 3.1 Modules

`StringValue` is the abstract specification: each string holds a sequence of
bytes; a call changes one string, to a text from outside, a slice of a string,
its own value with a range removed or a value put in; `c_str()` returns the
value; a move empties its source.

`AcornString` is the code. `str[h]` holds the four fields of object `h`;
`refs[b]` and `mem[b]` are the header's count and the bytes of heap block `b`
(count 0: not allocated). `hdr->cb` always equals `hdr->cap`, so one length
stands for both. Bytes are characters, the null byte, or `Uninit` for a byte
that `malloc` or `realloc` left undefined. `ret` is the result of `c_str()`
when that was the last call, `fault` records how a call killed the program:

| fault | in the code |
|---|---|
| `assert` | `assert(hdr->refs < 1000)` in `buf_release` |
| `bad_header` | a header read or written in front of a literal |
| `null_deref` | a header read in front of a null pointer |
| `use_after_free` | a freed block read, written or released |
| `out_of_bounds` | `memmove` with a length that has wrapped |

`Malloc` never returns a block some string still points at, so the use of a
freed block is always noticed and never hidden by reuse.

Each action is a whole call:

| action | code |
|---|---|
| `Destroy` | `~string` |
| `AssignLiteral` | `operator=` from a literal: a temporary static string and the copy |
| `CopyAssign`, `MoveConstruct` | `operator=`, copy constructor, move constructor |
| `Substr`, `Trim` | `substr`, `trim`: the substring constructor, then `operator=` into a string, then the destructor of the temporary |
| `Assign`, `AssignNull` | `assign(p, cb)`, `operator=(const char*)` |
| `InsertText`, `InsertString` | `insert`, `append`, `operator+=` with foreign bytes and with a string, the same one included, at offsets up to the end |
| `InsertPast` | `insert` at an offset past the end, where `_cb - byteOffset` wraps (`string.cpp:502`) |
| `Erase` | `erase` |
| `CStr` | `c_str`, which may give the string a private copy |
| `Clear`, `MutateToStatic` | `clear`, `mutateToStatic` |
| `ReadString`, `ReadStringEof` | `bytestream::read(string&)` through `alloc`, of a text of which the stream may have lost the last bytes: the read returns false and the string keeps `Uninit` bytes in their place; the second is the stream that ends inside the length |

`prepareToModify` is the operators `InPlace`, `Targets`, `Prepared`,
`PreparedOffset` and `PreparedRefs`: where the bytes are afterwards and what
was released. `erase` writes its terminator at `_buf[_cb]`, as the code does.

Nine call patterns break the class (`HazardKinds`). The constant `Hazards`
says which of them the callers use, so that the same model answers two
questions: what holds whatever the callers do (`Hazards` = all), and what a
careful caller can rely on (`Hazards` = {}).

### 3.2 Properties

- `RefsExact`: a buffer with a standard owner has as many references as
  standard owners. All sharing decisions of the class rest on it.
- `InBounds`: every slice ends inside its buffer, terminator included.
- `Isolation` (action property): a call that does not touch a string object
  does not change the text it stands for. This is copy-on-write.
- `NoFault`, `NoLeak`: no call faults; every allocated buffer is reachable.
- `ValueSemantics`: `AcornString` implements `StringValue` under the mapping
  `val[h]` = the bytes of the slice, `c_str()` of a null string = the empty
  text.
- `CStrFaithful`: the header's promise about `c_str()`, stated for the run that
  refutes it.

### 3.3 Runs

| run | instance | result |
|---|---|---|
| `string_sharing` | 3 strings, 2 blocks, one literal of 1 byte, capacity <= 2, count limit 4, **all** hazards | `TypeOK`, `RefsExact`, `InBounds`, `Isolation` hold, also where the assertion on the count fails; about 189,000 states |
| `string_contract` | 2 strings, 3 blocks, a literal of 2 bytes with a blank, capacity <= 3, limit 1000, **no** hazards | `NoFault`, `NoLeak`, `ValueSemantics` hold; about 25,000 states |
| `string_cstr_slice` | hazard `cstr_slice` | `CStrFaithful` violated |

*Bounds.* Three strings are the least with which a buffer can be shared, one
sharer can separate and the other two still share; the second block is the one
it separates to. Three blocks, in `string_contract`, let both of two sharers
separate and a third call allocate. Length 2 gives proper prefixes, suffixes and empty slices in the
middle, length 3 slices that are neither, and offsets run one past the end so
that clamping and swapping happen. One character suffices where no property
looks at text other than through equality before and after; `contract` has two
so that `trim` and misplaced bytes show. Requests to grow a buffer beyond
`MaxLen` are not made. `RefLimit` stands for 1000; `string_sharing` brings it
within reach.

*Symmetry and view.* Strings and blocks are interchangeable: no action or
property names one. `string_sharing` leaves `ret` out of the view: no action
reads it and its properties do not mention it beyond its type.

*Deadlock* is not checked: the program stops after a fault.

*Fairness.* None is assumed and no liveness is claimed: the class is passive,
each call ends by itself, and callers need not call.

### 3.4 What the models met

`c_str()` decides that a slice is the whole buffer by its end alone, and never
copies a slice of a literal; it then returns `_buf`, not `start()`.
`string("key=value").substr(4)` read as a C string is `key=value`. The run
`string_cstr_slice` shows it.

The other hazardous patterns have no run of their own; adding one of them to
`Hazards` in `MCAcornString_contract.cfg` makes TLC show it. `assign()` leaves
`_type`: after a literal, a heap buffer is labelled static, is not counted by
copies and is never freed. `erase()` in a slice that is its buffer's only owner
terminates at `_buf[_cb]` and puts the null byte into the text; `s.append(s)`
reads `s` through a pointer taken before `realloc`; self-assignment of a sole
owner frees what it then retains; `clear()` of a literal decrements what lies
before it; `substr()` of a null string reads a null header; `insert()` past the
end moves nearly 4 GB; a `read(string&)` that returns false after the length
leaves a string whose bytes nobody wrote. `ValueSemantics`, `NoFault` and `NoLeak`
say nothing about callers who use one of these; `InBounds`, `RefsExact` and
`Isolation` do.

### 3.5 Theorems

For every set of strings, blocks, literals, texts, every capacity, every count
limit and **every set of hazards**, `AcornStringProofs` proves:

| theorem | statement |
|---|---|
| `TypeCorrect` | `Spec => []TypeOK` |
| `RefCounting` | `Spec => []RefsExact` |
| `SlicesInBounds` | `Spec => []InBounds` |
| `CopyOnWrite` | `Spec => Isolation` |

For callers that keep to the **contract** (`Contract`: no hazardous pattern, and
one string object fewer than the assertion of `buf_release` has room for,
because `substr()` and `trim()` hold a buffer once more while they run),
it proves:

| theorem | statement |
|---|---|
| `ContractNoFault` | `Spec => []NoFault` |
| `ContractNoLeak` | `Spec => []NoLeak` |
| `StringsAreValues` | `Spec => ValueSemantics`: the class implements `StringValue` |

Assumptions: the named ASSUMEs of `AcornString` (finitely many strings, the
special values are distinct, literals and texts contain no null byte and fit
`MaxLen`, capacities are below 2^24 so that `_offset` does not wrap, the limit
is at least 2, the markers for "no result" are not texts). TLC evaluates them in
every run. `Contract` is what `string_contract` instantiates.

*The first invariant.* `RefsExact` is not inductive: a release is exact only if
the count it decrements belongs to an allocated buffer, and a static string on a
heap buffer could free a buffer that standard strings count. `IInv` adds

- `CountedBlocks`: a counted string's pointer is a heap block, never a
  literal;
- `OneLabel`: a heap block is pointed at by standard strings only, or by static
  strings only. It is what keeps the `assign_static` damage away from healthy
  strings: `assign()` always takes a new block, and copies take the label along.

*Its argument.* Each action changes one object `h` (or moves one), replaces
`refs` by a short chain of `Keep`, `Drop` and `New`, and writes at most the
bytes of one block. Lemmas say what one link of the chain does to the number of
owners of each block; a block that is written is either fresh or, by
`RefsExact` and `OneLabel`, owned by `h` alone. So the same step lemma
(`StepIInv`) yields the invariant after the step and `Frame`: the texts of the
other strings are the same, from which `Isolation` follows, and the counts are
those of the new owners.

*The second invariant.* `CInv` is `IInv`, `NoFault` and

- `AllCounted`: the count of *every* block is the number of its standard owners,
  so that a block without an owner is free. It fails as soon as a static string
  is on the heap, which is why it is no part of `IInv`;
- `GoodIn`, for each string: static strings are on literals; a slice that ends
  where its buffer does is followed by a null byte; its bytes are text, neither
  null nor uninitialised. The second part is what `c_str()` relies on when it
  returns a pointer into the buffer, the third what makes a reading of the
  bytes a value.

*Its argument.* One lemma per action (`...Allowed`) says that the call does not
fault, that the object it is made on has one of the values `StringValue` allows
for it (`Abs!Results`) and is good again; `Frame` says that nothing else changed.
This is the refinement step and the invariant at once (`AllowedStep`). For the calls
that move bytes the value is computed: `IsSlice`, `IsConcat`, `IsWrite` and
`IsResize` describe byte sequences element by element, and `InsertTrace` and
`EraseTrace` follow `insert()` (enlarge, move the tail, write the text, write
the terminator) and `erase()` (move the tail, terminate, shrink) through them
to `Splice` and `Cut`, the abstract results.

### 3.6 Left out

`replace()` is a sequence of the modelled `erase` and `insert`; what it computes
is in `StringText` (section 9), with the searches. UTF-8 decoding, number and URL
conversions read a string without changing it. Failure of `malloc` is not handled by the code and not
modelled. The 24-bit wrap of `_offset` is excluded by `MaxLenAssumption`.

## 4. The variant: `Val`

### 4.1 Module

A val owns what its union points at and copies it when it is copied. Strings,
byte arrays, errors and numbers are therefore plain data, and a val with the
vectors and maps below it is a tree: `tree[v]` maps every path of keys and
indices to the contents there, `Absent` where nothing is. The exception is a
val of type OBJECT, which points at a `shared_ptr` allocated by itself: `box[b]`
is the object in that `shared_ptr`, `Null` after `reset()`, `Free` when the box
is not allocated. `Release` (setType) deletes a box, `Reset` (the destructor)
only empties it, as in the code. Callers name vals by places, as references do;
`get()` of a missing key is the place of the process-wide `s_emptyVar`. The ghost
`copied` says whether the last call stored the value its argument had before it.

| action | code |
|---|---|
| `Destroy`, `Clear` | `~val`, `clear`, `setType(EMPTY)` |
| `AssignPlain` | the typed setters, `operator=` from a temporary of such a type |
| `ConstructObject`, `AssignObject` | `val(const sp<T>&)`, alone and as the temporary of an assignment |
| `MoveConstruct`, `Assign` | `val(val&&)`, `operator=(const val&)` |
| `Index`, `Set`, `SetSerialized`, `Unset` | `operator[]`, both `set`, `unset` |
| `AppendVal` | `appendVal` |

`assign()` empties the destination before it reads the source (`Assigned`).
`emplace()` in `set()` may or may not build a node from the val and destroy it
again when the key exists: a standard library may do either, so `Set` chooses.

### 4.2 Properties and runs

- `NoObjectLeak`: an object stays referenced only while a val refers to it,
  whatever the callers do.
- `OwnReference`: every OBJECT val has a live `shared_ptr` of its own: the
  header's "make copies rather than share references", stated for the run that
  refutes it.
- `StoredIsCopy`: where a call was to store a val, the value it had at the call
  is found afterwards, if source and destination do not overlap and no OBJECT is
  copied.
- `NoFault`: no freed memory, no failing assertion. `TypeOK` includes that the
  trees are trees: elements only in containers of their kind, arrays without
  gaps.

| run | instance | result |
|---|---|---|
| `val_sharing` | 2 variables, depth 1, 1 key, arrays of 2, at most 5 vals, 3 boxes, **all** hazards | `TypeOK`, `NoObjectLeak` hold; about 91,000 states |
| `val_contract` | 2 variables, depth 2, 1 key, arrays of 2, at most 8 vals, 2 boxes, **no** hazards | `NoFault`, `StoredIsCopy` hold; about 10,000 states |
| `val_copy_object` | 2 variables, depth 1, 2 boxes, hazard `copy_object` | `OwnReference` violated |

*Bounds.* Two variables and `s_emptyVar` are the parties of every call; depth 2
has an element, its container and the container's container, which is what the
overlapping assignments tell apart; arrays of 2 tell the first element from the
next. `MaxVals` bounds all vals together, `s_emptyVar` and the variables
included. Three boxes let a call make one while two are shared; without
`copy_object` only a variable can hold one, and two suffice. Symmetry is over
variables, boxes and keys, which nothing names. No fairness; deadlock is not
checked because the program stops after a fault.

*What the models met.* Assigning an OBJECT val copies the pointer to the
`shared_ptr` (`val.cpp:373`), so two vals own it: `v = val(object)` leaves an
empty reference, two copies free it twice, where the header says that
constructors and `operator=` "make copies rather than share references"
(`val.h:62`). The run `val_copy_object` shows it. Of the other patterns, `v = v`
and `v = v["key"]` empty the destination first; `v.set("key", v)` on an empty `v`
makes it a map before it is copied, and both break a property of `val_contract`
when they are added to its `Hazards`; a write through the reference that `get()`
returns for a missing key changes what every later missing key reads as, which no
property is about.

*Left out.* The accessors that convert; the global empty string, array and map,
which are handed out like `s_emptyVar`; `setByteArray`'s appending to an array
that is there. `parse` and `toJson` are in section 9.

### 4.3 Theorems

`ValProofs` proves, for every set of variables, keys, objects and boxes, and for
trees of every depth and width:

| theorem | callers | statement |
|---|---|---|
| `TypeCorrect` | any (`Hazards` arbitrary) | `Spec => []TypeOK` |
| `ObjectsLetGo` | any | `Spec => []NoObjectLeak` |
| `ContractNoFault` | `Hazards = {}` | `Spec => []NoFault` |
| `StoresCopies` | `Hazards = {}` | `Spec => []StoredIsCopy` |

Assumptions: the named ASSUMEs of `Val` (the bounds are natural numbers; keys are
no numbers; `s_emptyVar` is no variable; `Free` and `Null` are no objects).

*Trees.* Paths are sequences ordered by `IsPrefix`. The lemmas say how `Sub` (the
val at a place) and `Graft` (a val put at a place) meet: what is put at p is found
at p if it fits (`SubPut`), and what is neither above nor below p is as it was
(`PutBeside`, `SubBeside`; two places above a third are one above the other,
`PrefixLine`). `GraftRooted` says when a graft keeps the tree a tree. An induction
is needed in two places and is done by taking a least counterexample
(`LeastNat`): nothing is below a val that is no container (`Childless`, which the
step-by-step `WellFormed` does not say), and the elements of an array are an
initial segment (`InitialSegment`), so that their number plus one is a free slot
with a neighbour (`NextSlotFacts`).

*The first invariant* is `TypeOK /\ NoObjectLeak`. The second rests on the first:
a reference is lost only with the val that is overwritten, and setType(), which
deletes the box of the val itself and looks no further, drops all that is below
only because an OBJECT has nothing below it (`ObjectAlone`). With all hazards the proof covers
`assign()` from above or from itself, where the source is read after the
destination was emptied, and boxes that several vals share.

*The second invariant* adds `NoFault`, `StoredIsCopy`, `OwnReference` (without
`copy_object` no reference is shared) and that `s_emptyVar` is empty; together they
are inductive. No call but
`ConstructObject`, which takes a box nobody refers to, and `MoveConstruct`, which
takes the reference away from its source, puts an OBJECT anywhere, because a
copied val contains none. So every other call is a `Put` of a val without boxes
(`SoundPut`): the references that remain are beside the place, each the only one
to its box, hence to none of the boxes that were dropped. All boxes that are
referred to hold objects, so no call meets a freed one. The value that is stored
is the value at the call because emptying the destination, or making an EMPTY
val a container, does not touch a source that does not overlap it.

## 5. Streams

### 5.1 `ByteStream`

`mem` is the `_cb` bytes of the buffer, `offsetRead` and `offsetWrite` the
cursors. Two ghosts say what is expected: `sent` is what has been put into the
stream, byte for byte at its place, `got` the last read; `want` is what a
`std::vector` would hold after the last call of the array's own interface. A third,
`used`, is the set of hazardous patterns (`HazardKinds`) the callers have used so
far; `ByContract` is that there is none. The
unsigned subtractions `_cb - offset` are modelled with their wrap: past the end
there is always room. 256 is the constant `Chunk`.

`WriteBytes`, `ReadBytes`, `SetWriteOffset` and `Reopen` (`getWrittenBytes` made
into a new stream, the way to read what was written) are the stream; `AssignArray`,
`AppendArray`, `InsertArray`, `EraseArray`, `ResizeArray`, `ClearArray` are what it
inherits from `bytearray`, and do not know the cursors: on a stream whose cursors
have moved they are the pattern `array_calls`. `SelfArgument` is a call that is given
its own array.

- `ReadsWhatWasWritten`: a read returns the bytes that were written where it
  read, as many as asked for, or all that are left and then says so.
- `CursorsInside`: the subtractions never wrap. `NoFault`. All three are for
  callers that have not used a hazardous pattern.
- `VectorCalls`: `assign`, `append`, `insert`, `clear` and a `resize` to fewer bytes
  do what a vector does, whatever happened to the array before, hazardous calls
  included. A `resize` that adds bytes leaves them as `realloc` does, where a vector
  has zeros; `erase` and calls that are given the array itself are not covered.
- `Kept` (growing keeps what was put in) is part of what is proved.

| run | instance | result |
|---|---|---|
| `bytestream_stream` | words of 1 and 3 bytes, chunk 2, size <= 4, every pattern | `NoFault`, `CursorsInside`, `ReadsWhatWasWritten`, `VectorCalls` hold; about 464,000 states |

*Bounds.* A chunk of 2 and a size of 4 make writes that fit, that fill the buffer
exactly and that grow it, once and twice. Reads and offsets run over all positions.

`erase(offset, cb)` moves the head of the array to `offset` instead of the tail
behind the range (`bytearray.cpp:71`); this is why `VectorCalls` leaves it out.

### 5.2 Theorems

`ByteStreamProofs` proves `StreamNoFault`, `StreamCursors` (`CursorsInside`),
`StreamKept` (`Kept`) and `StreamContract` (`ReadsWhatWasWritten`), all under
`ByContract`, for every chunk size, every set of inputs and every bound. The invariant adds to the four
that `sent` and `mem` are sequences of bytes and that the write cursor is not
past the end of `sent`.
A write then goes where `sent` is written too, with the same bytes, and the
buffer it goes to is either the old one or one that `Grown` makes large enough
(lemma `GrownEnough`, the only arithmetic with `\div`). A short read can only
happen when the buffer is exactly `sent`, because `read_ahead` was not used; so what it returns is the end of what was written.

Without that condition it proves `TypeCorrect` and `ArrayIsVector`
(`Spec => VectorCalls`). Only the types are needed of the state before the call; the
work is in `AppendedIs` and `InsertedIs`, which follow `realloc` and the copies of
`append()` and `insert()` byte by byte.

### 5.3 `ValStream`

`write(const val&)` and `read(val&)` as `Encode` and `Decode` over a stream of
two-byte units; `Decode` yields its outcome, the val and the cursor, and stops where
the code returns false. The recursion of the code through arrays and maps is a
recursive function of the nesting depth: `Encoding[d]` writes vals that nest less
than `d` deep with `Encoding[d - 1]` for those inside (`EncodeBody`), `Decoding(s)[d]`
reads them at each place of the stream `s` with `Decoding(s)[d - 1]` (`DecodeBody`).
The code has no bound on the depth; `MaxNest` is one, any natural number. `Items` is
the loop over elements and entries: it goes on from where the last one ended and
ends at the first that fails (`AfterItem`). Vals inside are read into new vals. The
val that the program itself passes to `read(val&)` may be new or one it has used
before (`Targets`), and `Onto` is what it holds afterwards: `setType()` returns early
when the type stays the same (`bytestream.cpp:106`, `val.cpp:319`), so an array or map
keeps what it has, `push_back` adds elements and `insert` adds the entries whose keys
are new. `out` records each read with the val before and after. `Cut` takes the stream's end away at any
unit.

- `ReadBack`: the vals read are those written, in order; in a reused array, behind
  the elements it had. What a map read into a map holds is not claimed: it depends on
  the keys it had.
- `InStep`: the cursor stands between two vals as long as reads succeed.
- `FailsAtEnd`: a read fails only by running into the end.

| run | instance | result |
|---|---|---|
| `valstream_trip` | 9 vals (arrays in arrays in maps, measurements, errors; `MaxNest` = 4, which the deepest needs), 3 of them written, cut anywhere unless an error val is in the stream | `ReadBack`, `InStep`, `FailsAtEnd` hold; about 81,000 states |

A stream that holds an ERROR val is not cut: `read(val&)` does not check what it
reads of one. Of a measurement's unit two of four bytes are read, the others are
undefined and not compared.

The vals of the run hold no strings outside keys and errors: `read(val&)` of a
STRING or a BYTEARRAY reads eight bytes of the stream into the pointer
(`bytestream.cpp:115`, `:125`), so that none comes back.

### 5.4 Theorems about `ValStream`

`ValStreamProofs` proves `ValsReadBack` (`ReadBack`), `ReadsKeepStep` (`InStep`) and
`ReadsFailAtEnd` (`FailsAtEnd`) for every set of vals of every size and depth, any
number of them, a stream cut anywhere and any reuse of vals, under the one condition `NoBlobs` that the
vals hold no STRING and no BYTEARRAY, which is needed for the reason above.

The core is the lemma `RoundTrip`: in any stream, at any place where the units of a
val stand, `Decode` finds a val that is written with the same units and leaves the
cursor behind them; where only their beginning stands because the stream ends, it
fails with the cursor at the end (unless an ERROR is inside, whose reads are not
checked). It goes by induction on the depth, with one lemma for the body of each
type (`EmptyReads`, `NumberReads`, `MeasurementReads`, `ErrorReads`, `ArrayReads`,
`MapReads`) and, for the loops, an induction on the number of elements (`LoopReads`).
The provers know neither recursive functions nor induction: the recursion
equations (`JoinsIs`, `NestedIs`, `EncodingIs`, `DecodingIs`, `ItemsIs`) are derived
from the well-foundedness of `<`, and `Induction` is stated over a set instead of a
predicate.

The inductive invariant `IInv` says that the units of the vals written stand in the
stream, all of them unless it was cut, and that the cursor is behind those of the
vals read. `ReadBack` alone is not inductive: it does not say where the cursor is.
Of each read it says that the val holds `Onto` of what it held and of a val written
like the one in the stream (`ReadOnto`), and that arrays that are read into hold vals
(`Fillable`), so that the old elements and the new can be told apart (`OneReadBack`).

`ReadBack` compares what two vals are written as. `ValsComeBack` closes the gap: if
there are no measurements either, of whose unit a half is lost, a val holds after the
read exactly `Onto` of what it held and of the val written: the val **itself** if it was
new, with maps included. Two vals that are written alike are alike (`WritesTell`), because
one read finds one thing: arrays written alike have elements that end at the same
places (`SameElems`), by `RoundTrip` again.

## 6. Requests and promises

### 6.1 `Promise`

The part of QuickJS an answer goes through. `promise[p]` is `JSPromiseData`'s
state and result; `reactions[p]` its two reaction lists, which grow together and
are one sequence; `resolver[<<p, k>>]` the `already_resolved` flag of a pair of
resolving functions: `<<p, 1>>` is made with the promise, `<<p, 2>>` by the job
that follows another promise; `jobs` is `rt->job_list`. `handled` and `unhandled`
are `is_handled` and what the rejection tracker was told. `order`, `ran` and
`adopted` are history: the promises `then()` made, whose reaction has run, and
which promise each was resolved with.

| action or operator | code (`js/quickjs.c`) |
|---|---|
| `Construct`, `Call`, `Then` | the constructor, a resolving function called by a script, `then()` |
| `ResolveFunctionCall`, `Resolution` | `js_promise_resolve_function_call` |
| `FulfillOrReject` | `fulfill_or_reject_promise` |
| `PerformPromiseThen`, `React` | `perform_promise_then` |
| `PromiseReactionJob`, `AdoptionJob` | `promise_reaction_job` with a script's handler, and with a resolving function as handler |
| `PromiseResolveThenableJob` | `js_promise_resolve_thenable_job` |
| `ExecutePendingJob` | `JS_ExecutePendingJob`: the first job of the list |

A handler runs to completion on the main thread, so a job is one step. What the
handler itself calls is modelled as the script's steps before it; the handler's
job is off the queue by then and nothing else depends on the order.

### 6.2 `Fetch`

`request[r]` is one call of `httpreq`: `flight` after `[task resume]`, `answered`
once the completion handler on the network thread has dispatched its block to
`mainQueue`, `done` after the block, `refused` when the arguments were wrong.
`held[r]` counts the JSValues (`this`, `resolve`, `reject`) the request has
duplicated. `aborted` is the failed assertion of a request with a body.

External are NSURLSession, the main queue and `hook_JS_EnqueueJob`, of which
`src/` shows only the use. Completions come in any order, with a response or
with an error (status 0), and scripts take their turns in between.

*Fairness.* Weak fairness of `Network(r)`: a task that was resumed calls its
completion handler, at the latest by its timeout; of `MainQueue`: the main loop
runs dispatched blocks; of `MainLoopJobs`: every `JS_EnqueueJob` asks the host to
run the jobs. Nothing is assumed of scripts, which may stop or go on for ever.

### 6.3 Properties and the run

| property | says |
|---|---|
| `OneWayToSettle` | a pending promise has exactly one thing left that can settle it: its first pair, one queued job, or its second pair; a settled one has none |
| `SettledForever` | state and result of a settled promise do not change |
| `AdoptsOutcome` | a promise resolved with a promise ends like that one |
| `ReactionsInOrder` | reactions run in the order of the `then()` calls, across settling |
| `TrackerExact` | the host knows exactly the rejected promises nobody handles |
| `HeldUntilBlock` | a request holds its values until its block has run, which is queued once |
| `EveryRequestAnswered` | a request that was sent leads to a settled promise, or to one that follows the promise the script gave it |
| `OutcomePropagates` | every reaction of a settled promise runs; a promise follows the one it adopted to the end |

The first of these is what makes the comment at `quickjs.c:47932`, "should never
happen", true: the early return of `fulfill_or_reject_promise` is not reached.

`fetch_requests`: 3 promises, 2 requests, one success and one error; about
160,000 states. Two requests can complete in either order; three promises make a
chain, a promise with two reactions, two promises that follow a third and a
circle. The eight properties hold. Deadlock is not checked: a script may end,
with nothing left to do.

*Met on the way.* A failed request is *resolved* with status 0 and never
rejected; both refusals leave three values duplicated (`HeldUntilBlock` says so);
a request with a body aborts, because no script value becomes a BYTEARRAY val;
`fetch()` calls `libacorn.fetch`, but the function is registered as `httpreq`, so
that every `fetch()` is rejected; promises resolved with each other in a circle
stay pending.

### 6.4 Theorems

For any number of promises and requests and any values, from the named
assumptions of `Promise` and `Fetch` (the special values are distinct; the values
of requests are values):

| theorem | module | statement |
|---|---|---|
| `TypeCorrect`, `TrackerAgrees`, `SettledStays` | `FetchProofs` | `TypeOK`, `TrackerExact`, `SettledForever` |
| `HeldForTheBlock` | `FetchProofs` | `HeldUntilBlock` |
| `OneWay` | `PromiseProofs` | `OneWayToSettle` |
| `AdoptionFaithful` | `PromiseProofs` | `AdoptsOutcome` |
| `HandlersKeepOrder` | `PromiseProofs` | `ReactionsInOrder` |
| `NoReactionLost` | `PromiseProofs` | `ReactionsKept`: a reaction is listed until its promise settles and then has run or is queued |

*The invariants.* `FetchInv` adds to the types that a settled promise has a value,
that only promises that exist were handled or are to be followed (`Sound`) and
that a request under way knows its promise (`UnderWay`). `OneWayToSettle` is not
inductive: a job or a reaction calls a pair, and that this call settles the
promise the pair belongs to, and no second one, needs that the pair was made. So
`OneWayInv` adds `Known`: every pair named by a reaction, a job, a promise or a
request (`PromisesExist`) was made. Pairs are never taken back (`Later`), so
`Known` survives every step for whatever is already recorded, and a step has
only to be examined for what it adds.

`HeldUntilBlock` is inductive with `FetchInv`. `AdoptsOutcome` says nothing about
what is on the way: `AdoptInv` adds that a thenable job is for the promise its
promise adopted, that a reaction without a promise of its own is the second pair
of a promise that adopted the one it waits for, and that the queued job made of it
carries that one's outcome (`Faithful`, `Follows`); and that a promise whose first
pair is live has adopted nothing yet. It needs `OneWayInv`, because a second call
would change an outcome that is already on its way. For the order, `OrderInv`
says of two `then()` calls of one promise that the later is not before the earlier
in the list of reactions, in the queue, or among what has run; that each
call made a promise of its own, so that the calls can be told apart; and that
nothing is lost (`NoneLost`): without it a later call could run although the
earlier one never was queued.

*The argument.* `Way(promise, resolver, jobs, p)` is the property for one promise
with its variables as parameters. Every step is a call of one pair on a queue
that is `jobs`, its tail, or either with something appended. Lemmas say what
appending reactions, appending a thenable job and taking the first job do to
`Way` for each promise; the call moves promise `p` from one way to the next
(first pair, job, second pair, settled) and leaves the others where they are.

Settling moves a whole list of reactions to the end of the queue at once; the
lemmas about it state where each reaction arrives, so that order in the list is
order in the queue.

*Only model-checked*: the two liveness properties, which the provers cannot treat.

## 7. The view tree

### 7.1 `ViewTree`

Two hierarchies: `subviews` and `superview` are the View objects' shared and raw
pointers; `nsview` and `nativeSuper` are the native views, which AppKit retains
through their superview. `held` are the views a script refers to. `class[v]`
is what the view is, or that it was freed. `handler` and `tracked` are the handler
properties and the tracking areas, `running` how the process is doing.

| action | code |
|---|---|
| `LoadView`, `StartScript` | the views of the window's asset (`View::applyStyle`, `createImpl`), then the script |
| `NewView` | `new View()`, `new Button()`: only the second makes a native view |
| `AddView` | `View::addView`, with its assertion |
| `FindView` | `View::findView` and `Window::findView`; a search in a cycle exhausts the stack |
| `Drop` | the last reference of a script goes: `~View`, down to what nobody owns any more |
| `SetHandler` | the handler properties with `setWantMouseEnterExit` |
| `Click`, `Close` | a click on a button without a handler, the window's close button |

`Kept` is what reference counting keeps: the largest set whose members have an
owner, which includes cycles. `FindWithin[n]` is what
`findView` answers for each view and id when it may call itself `n` deep; a search
that does not end has the answer `"deeper"`.

### 7.2 Properties and the run

- `LinksAgree`: a listed view is alive and has one parent, which it points at; a
  view whose parent lives is in its list.
- `NativeMirrorsTree`: the native hierarchy is the tree restricted to the views
  with a native view, and no native view outlives the View it calls back.
- `WindowTreeFinite`: unless the root itself was added somewhere, the window's
  tree is finite, and the recursions through it end.
- `TrackedOnlyIfWanted`: mouse events are tracked only while a handler is set.
- `FindComplete`: `findView` finds what is there, and nothing else.

`views_window`: 3 views, 2 ids, 3 handler calls; about 257,000 states. Three views
make a chain with the root, two siblings, and a cycle outside the window; two ids
make equal and different names. A tracked handler pair needs three calls.
Symmetry is over the views but the root and over ids. The view `OneEnd` makes one
state of all ends of the process: no action is enabled there, and the state
before the end, which differs only in `running`, was checked. Deadlock is not
checked: the process exits.

*Met on the way.* `_superview` is never reset, so that a view whose parent was
freed can never be added again and points at freed memory; a view can be added
to its own descendant, which leaks the cycle and makes `findView` recurse for
ever; clearing one of two mouse handlers removes the tracking area of both;
handlers of a Button and clicks without a handler throw.

### 7.3 Theorems

For every finite set of views, any ids and any number of calls, `ViewTreeProofs`
proves `TypeCorrect` and all five properties:

| theorem | statement |
|---|---|
| `ParentAndChild` | `Spec => []LinksAgree` |
| `NativeFollows` | `Spec => []NativeMirrorsTree` |
| `TrackingStops` | `Spec => []TrackedOnlyIfWanted` |
| `WindowEnds` | `Spec => []WindowTreeFinite` |
| `FindsWhatIsThere` | `Spec => []FindComplete` |
| `WindowFindReturns` | `Spec => []FindReturns`: while the root view has no superview, the window's `findView` returns |

*The invariant.* `TreeInv` is the first three with the types and `Owned`: a view not
made yet is nobody's parent or child; the window and the script hold views that are
alive, without which `addView` would list a freed view; while the asset is
loaded every view has a native view; only native views are tracked.

*The argument.* `addView` adds one link, and its assertion leaves only views
without a superview. `~View` takes away all that is not `Kept`: the lemmas
about it use only that it is the largest set with owners, so that a child of a kept
view is kept and a view without an owner is not.

The other two follow from the invariant in each state, by induction on depth. The
library's induction theorems take a predicate, which the provers do not
instantiate; `SetInduction` is the same for a set, from the fact that a set of
numbers has a least member (`LeastNat`). With it `FindWithin` is shown to satisfy its
recursion, an answer at depth `n` to mean what it should (`Means`), and a view at
depth `n` to have a path of `n` links to it. A path longer than there are views
meets a view twice; with one parent each, going back from both places leads from
the root to a view that has it below itself, so the root has a superview.

## 8. Layout

`Layout` is `View::layout` with everything it calls: margins and padding
(`getActualMargins`, `getActualPadding`, `insets`), `measure` of plain views,
images and buttons, `applyPosition`, the flex bases, the distribution by
`flex-grow` and `flex-shrink`, and the loop that places the subviews. Rows and
columns are one algorithm with the axes exchanged, as in the code. `FrameOf` is
the recursion down the tree. The actions are AppKit's `[layout]` to a flagged
native view (`NativeLayout`), `Resize`, `SetMargin` and `SetPadding`. Lengths are
integers, `Pixel` of them to a pixel, so that rectangles of a fraction of a pixel
occur and `ceilf()` in `ImageView::measure` rounds (`Ceilf`); floats are not modelled,
and the lengths of the instance are such that
all shares are exact. The size of a text is AppKit's and is a constant here.
Everything up to `SubRects` is a function of the properties of a view (`s`), of
those of its subviews (`kids`) and of a rectangle; only `Kids` and `FrameOf` read the
state.

- `FillsMainAxis`: sizes and margins of subviews that can give or take add up to
  the container's length, but for what the divisions of the model drop.
- `RoomKeepsBasis`: where there is room nobody gets less than it asks for, although
  the loop reads percentage margins from a rectangle that has become smaller.
- `InsideContent`: flexible subviews stay inside the content; an image in a plain
  container exceeds the content it is measured for only by what `ceilf()` adds, less
  than a pixel, and not at all where that is whole pixels; `center` is the centre.
- `StaleNearChange`: a change that is not laid out at once leaves only frames
  near the changed view out of date.

`layout_tree`: a root (plain, row or column, with and without padding), a
container in it with an image, and a sibling with lengths, percentages, weights,
margins, a basis or a position; two window sizes and one change of an inset;
about 167,000 states. All four hold.

*Met on the way.* The comment at `view.h:47` says of `measure` that the rectangle
"cannot be exceeded". An image in a rectangle 33.3 high is measured 34 high, because
both sides are rounded up after they were fitted; a plain view takes the lengths it
asks for and a button the size of its text whatever the rectangle is. So
`InsideContent` bounds an image's excess, and leaves plain views and buttons in plain
containers out. `set_margin` and `set_padding` flag the view's own native view,
whose `[layout]` does nothing unless it is the root's: the change shows at the next
resize. The next subview starts where the *size* of the previous one ends, its
margins not counted, so margins overlap; `flex-shrink` has no lower limit and can
leave a negative size. `InsideContent` is stated for subviews without either. In
a container smaller than its padding the content's length is negative, and so is a
percentage of it: a subview that asks for a negative length makes what is left
larger for the next one, whose percentage margins then take more than was added
for them. `RoomKeepsBasis` therefore says that nobody asks for a negative length.

### 8.1 Theorems

`LayoutProofs` proves all four for every finite tree, every style sheet, every set of
window sizes and any number of changes. What is assumed of the constants
(`StyleAssumption`, `TreeAssumption`; TLC evaluates both on the instance) is that
properties have the types `StyleType` lists, that images and buttons have a
content of at least one unit, and that every view but the root is in one place of
one list of subviews, without cycles, which is what `addView` makes (section 7).

| theorem | statement |
|---|---|
| `DamageIsLocal` | `Spec => []StaleNearChange` |
| `MainAxisFilled` | `Spec => []FillsMainAxis` |
| `NothingSticksOut` | `Spec => []InsideContent` |
| `RoomKept` | `Spec => []RoomKeepsBasis`, for style sheets in which flex-grow and margins are not negative (`NaturalSheet`), as in the instance |

*The invariant.* `StyleInv` is `StaleNearChange` with the types of style and window
and the frame of the root, which is up to date unless the root is flagged: without
it nothing would be known of the frames at the top of the tree.

*The argument.* Sums, the loop over the subviews, `AboveOrSelf` and `FrameOf` are
recursive functions, and what they satisfy has to be shown first:
`RecursiveFunction` makes a function from a rule that goes to places of smaller rank,
by `SetInduction`, and each of the four is an instance. `FrameDepends` then says what
a frame depends on: the window, and the properties of the containers above the
view and of their subviews (induction down the tree). A changed view that is
neither one of these containers nor in their lists changes none of it, which is
`StaleNearChange`. When nothing was missed every frame is thus `FrameOf`'s, and the
other three are facts about one call of `SubRects`. `SharesTotal`: the sum of the
weights times what the shares leave is the sum of the remainders of the divisions,
by linearity of sums; with margins in pixels this is `FillsMainAxis`, and since
remainders are not negative the shares never exceed the container, which gives
`InsideContent` along the main axis. For `RoomKeepsBasis` the room that is left
shrinks from subview to subview, so a percentage of it does.

## 9. Texts

`StringText` has the searches of `string.cpp` as operators: `FindStr` (with the
unsigned wrap that takes it outside the buffer as the result `Outside`), `Find`, `Split`,
`Join`, `Replace`, `FindLast`, `ReadUpTo`, `ReadPast`. `ValParse` has `val::parse`
in both notations and `val::toJson`. A call of `parse` is done, gives up inside a
map, or is `Stuck`: the loop of an implicit array has called `parse` and the offset
did not move, from where it repeats itself. Offsets are passed and returned as
the code does by reference.

The two users are a person who types an asset character by character, to be
loaded at any moment (`Type`, `LoadAsset`), and a program that writes documents
with `toJson` one behind the other and reads them with `parse` (`WriteJson`,
`ReadJson`).

- `ParseEnds`: `parse` ends for every text with `PARSEFLAG_JSON`, and for an asset
  unless an implicit array runs into a `:`; it never passes the end of the text.
- `JsonReadsBack`: as long as only *documents* are written, the vals read are those
  written, each call stopping exactly behind its own. A document (`Document`) is a
  val whose text ends by itself: no number alone, no EMPTY, no quote or backslash in
  a string, no empty key. Two kinds of val come back as another one (`ComesBackAs`): an
  empty string as `(null)`, because `toJson` formats the null pointer that `c_str()`
  returns for it, and a percentage as the text `50.000000pc`.
- `SearchesAgree`: `split`, `join`, `replace` and `findLast` agree with one another on
  every text typed, and `find`, `readUpTo` and `readPast` with the definition of a
  search at every offset of it; they run outside the string exactly when the text
  searched for is at least two bytes longer than the rest. One byte never does; two do
  at the end of the string.

`text_parse`: 13 characters (brackets, quote, escape, comma, colon, newline,
blank, the comment sign, a letter, a digit), every text of up to four of them behind
three beginnings (nothing, inside an object, inside an array), and sequences of up to
three of thirteen vals, three of them no documents; about 196,000 states. A program
reads at most as many vals as it wrote (`ReadJson`).

*Met on the way.* `a:` in an asset does not end: a word stops at `:`, the implicit
array does not. The comment at `val.cpp:1103` says that the elements of an implicit
array "are delimited by spaces or commas", while line 1109 ends it at a comma and
the line that would skip one is not reached.
`toJson` does not escape quotes, and writes an empty string as `"(null)"`.

## 10. Only model-checked, and not modelled

*Out of the prover's reach, checked by TLC*: liveness (`EveryRequestAnswered`,
`OutcomePropagates`); what the recursive operators of `ValParse` and `StringText`
compute, where the parser's progress depends on the text itself and not on a depth
that a recursive function could go by.

*Not modelled.*

- The rest of QuickJS: about 84,000 of the repository's 90,000 lines are this
  third-party engine (interpreter, compiler, garbage collector, regular
  expressions, big numbers, Unicode tables). It is not libacorn's logic, and the
  parts that are pure computation on large inputs have nothing for small
  instances to show. For this reason the modelled lines are a small share of the
  whole repository although they are most of the state-changing code of `base`,
  `lib` and `ux`. `Promise.all`, `race`, `any`, `finally` and `await` are built on
  the modelled `then()`; thenables that are not promises are left out.
- `Headers` and `Request` of `fetch.js`: nothing native reads them ("todo:
  propagate headers"); `get()` looks up a property of the Map object instead of
  an entry, so that it finds nothing that `append()` put in.
- UTF-8 offsets, hexadecimal, number and URL conversion of strings; number
  suffixes of `parse` (`4GB` is 0 in 32 bits); `urlDecode`, which is not the inverse
  of `urlEncode` and is not called. They are pure, and no comment says what they
  should do.
- Drawing, colours, borders, gravity, titles, drag contents, the program's start
  (`nsview`, `macos.mm`): platform I/O.
- The script binding and the object registrar: no state of their own beyond the
  references modelled with their users.
- Hashing (third-party arithmetic) and logging (output).
- Failure of `malloc`, which the code does not handle, and threads other than
  the network's: the base library and the views run on the main thread.
