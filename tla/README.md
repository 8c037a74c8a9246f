# A formal model of scapar

scapar is a C library that reads keyword files: a program registers keywords
with the addresses of its variables, sections and vectors, and `scapar_parse`
fills them from a text file. The library is sequential. What makes it hard to
get right is not concurrency but lazily maintained state (sorted flags, parsed
marks, base addresses, growing buffers) that is shared between operations
called in any order, between the levels of a recursion, and between the
elements of vectors of sections.

The models are TLA+ modules checked with TLC; the theorems are proved with
TLAPS. Every definition is translated from the C sources, and `PROJECT.json`
names the lines of each.

## Inventory

| Component | State | Operations | Hard behaviour | Modules |
|---|---|---|---|---|
| Keyword registry (`scapar.c`, `scapar-sec.c` 101-330) | item arrays, `size`, `alloc`, `sorted` of each section; `sorted`, `dup_check`, `cs_mark` of the parser | `scapar_register*`, `scapar_sec_register*`, `scapar_sort`, `scapar_query`, `scapar_get_section`, `scapar_sec_*` | a flag in two copies, a sort that does not visit every section, checks that depend on the order of calls | `Registry`, `KeywordStore` |
| Line reader (`scapar-sec.c` 379-458, `scapar-utils.c`) | file position, line buffer and its length | `scapar_fgets`, the continuation loop | lines cut by the buffer, continuation at the end of the file, comments and blank lines inside a continuation, DOS line ends | `LineReader`, `LogicalLines` |
| Keyword line (`scapar-sec.c` 458-500, `scapar-utils.c`) | the bytes of the buffer, the pointer into it | trim, discard, ending mark, keyword, separator, words | bytes of earlier lines behind the terminator | `KeyLine` |
| Section parser (`scapar-sec.c` 358-697, `scapar-table.c` 267-289) | the recursion, parsed marks, vectors under construction, the program's variables | one branch per item type | marks shared by all elements of a vector of sections, files that end anywhere, a second call | `SectionParser` |
| Vectors (`scapar-vec.c`) | `data`, `size`, `alloc`, `type` | init, add, get, destroy | growth, a byte count in `SCAPAR_IDX` | `VectorData`, `Vector`, `ValueList` |
| Tables (`scapar-table.c`) | columns, `num_entries` | create, add, get, destroy, print | rows added column by column, the ending slash, a table destroyed and made again | `Table`, `TableRows` |
| Ownership and `scapar_finalize` | every block the library allocates | `scapar_finalize`, `scapar_sec_finalize`, `*_destroy` | descriptors shared by elements, the `destroy` flag, repeated calls | `Finalizer` |
| Printing | the base address in each descriptor | `scapar_print*`, `scapar_sec_print`, `scapar_vec_print` | a base replaced and put back at every level, marks of the last element | `Printer` |
| Settings and life cycle (`scapar.c`) | marks, buffer size, flags | `scapar_init`, `scapar_set_*`, any order of calls | settings changed after the first keyword, parsing on, finalising twice | `Registry`, `Scapar` |
| User types | callbacks per section | conversion, destruction, printing | lines read by the callback, callback missing in a subsection | `SectionParser`, `Finalizer`, `Printer`, `Examples` |
| Examples (`example/`) | each program's keywords and file | registers, parses, prints, finalises | files cut short | `Examples` |
| Memory wrappers, time, magic checks, infos | none | wrappers | - | - |

How they interact: `scapar_register` and `scapar_get_section` build the tree of
sections; `scapar_parse` sorts it and calls `scapar_sec_parse_from_fh`, which
reads logical lines, queries the registry for the keyword of each and stores
its value at `base + offset`, calling itself for sections and
`scapar_parse_table_from_fh` for tables; user conversions are callbacks that
may read from the same file. Printing and finalisation walk the same
descriptors, going by the parsed marks and the base address that parsing and
printing have left in them. `scapar_error` ends the process, so an error is a
final state of a model.

What makes each component correct:

- registry: a flag that says *sorted* is true; nothing registered is lost or
  altered; the item array has room; each section has one owner; `dup_check`
  keeps keys distinct; a program that always checks never meets an unsorted
  section; a registered section is found;
- line reader: the buffer is never overrun; a file is read as the logical lines
  that a definition over the whole file gives; reading ends;
- keyword line: the keyword, the value and the words are those of the line and
  of no other;
- section parser: no value is silently given twice in the same object; a
  refusal is justified; no value is lost; parsing ends;
- vectors and tables: a list of values and a list of complete rows; the block
  has room for what it holds; no table is lost;
- printing: the base addresses are put back; the parser's own section and the
  last elements are shown exactly;
- finalisation: no block freed twice, no descriptor followed after it was
  freed, owners freed after what they own, nothing left.

## Modules

**`Registry`** models registration, sorting and lookup. A section is a number
in order of creation, 1 being the one embedded in `SCAPAR`; a spelling is a
number in `strcmp` order, `Lower` and `Trim` are what `scapar_string_to_lower`
and `scapar_str_remove_spaces` do to spellings. `items`, `alloc` and `sorted`
are the fields of `SCAPAR_SEC`, `rsorted`, `dup_check` and `cs_mark` those of
`SCAPAR`; `handles` are the section pointers the program has been given;
`outcome` tells whether the process runs or how it ended, and for a lookup that
ended it, which section and key were asked for. Each public function is an
action, with its duplicate query, its growth, and the sort that `dup_check`
asks for; a query's answer gives the program the section of the item, the way
to that of a vector of sections. `Visited` is the set of sections the recursion of `scapar_sec_sort` marks,
written as a least closed set so that no RECURSIVE operator stands in the way
of proofs. `qsort` and `bsearch` are external: any ordered permutation, any
matching element (and, on an array out of order, possibly none). `checked` in
an item and `nreg` serve properties only. **`KeywordStore`** is what the
registry promises: sections are sets of keywords, duplicates are refused and
lookups answered from exactly those sets; `Registry!Store` maps the arrays to
their ranges.

**`LineReader`** models the reading of one logical line. A physical line has a
kind (text, comment, blank), a final backslash or none, a terminator and a
size; `buf` is the line buffer with its byte count `ps`, `len` its allocated
size. `Chunk` and `Tails` say what `fgets` returns of a line that does not fit
and leaves behind; the kind of the rest is open, except that it cannot be text
where there is none. `Strip` is lines 391-407 as they are: the carriage return
of a DOS line stays. One action per branch of the continuation loop.
**`LogicalLines`** defines the logical lines of a file from the whole file, in
which a line too long for its reader may be cut (`Pieces`): the pieces then are
lines like any other. `LineReader!Logical` maps the physical lines already taken
for the present line back in front of the rest of the file, and lets lines of at
least `BufSize` bytes be cut as `fgets` cuts them (`CutInTwo`).

**`KeyLine`** takes over where the line reader ends, on bytes: `buf` is the
buffer with what earlier lines have left in it, `p` the pointer, `str` the
keyword. `RemoveSpaces` trims in place by moving the rest of the line, its
terminator included, to the front; `Look` tells comments and ending marks;
`TakeKey`, `SkipSep` and `NextWord` are the loops over characters, written with
`First` (the first place that stops the loop). The reference definitions
(`Stripped`, `KeyOf`, `ValueOf`, `WordsOf`) are on the line as a sequence.

**`SectionParser`** models the interpretation of logical lines. The recursion
is the variable `stack`; `marks` are the parsed flags, one set per section
descriptor; `data` are the values stored, each with the object (path of
keywords and element numbers) it was stored in and the line it came from;
`inited` are the vectors initialised. `Schema` is the registered tree. One
action per branch of `scapar_sec_parse_from_fh` and per kind of table line,
`Return` for what the caller does when a section or table ends, and `ParseFile`
for `scapar_parse`, which may be called again: the file is read on and marks,
vectors and data stay.

**`Layout`** adds the order of each item array, by which **`Printer`** and
**`Finalizer`** walk. In `Printer`, `base` is the `base` field of every
descriptor and `printing` the stack of `scapar_sec_print` and
`scapar_vec_print`; `shown` collects objects and keywords whose value was
printed. A section the parser has not read a line for may be unsorted, before
the parse and after it, and printing it then ends the process (`Entered`). In `Finalizer`, `calls` is the stack of `scapar_sec_finalize` and
`scapar_vec_destroy`; memory is named block by block (`Registered`,
`Contents`), and `freed` and `misfreed` are what `free` was given once and
wrongly. After the elements of a vector of sections the code finalises their
section once more with the vector's own address: a base that is `shifted`.
**`Scapar`** composes parser, printer and finalisation: a program may parse,
print, parse on, print, finalise and finalise again, one call after the other,
over the marks and descriptors they share. **`Schemas`** has the registered
trees used by the runs.

**`Examples`** instantiates `Scapar` once per program under `example/`: the
keywords its `main` registers, the order sorting gives them, its printing
calls, and its file as a sequence of logical lines, cut after any of them. The
library is deterministic here: the lines are those of the file. `gen_perf`
takes the number of keywords of each kind as its argument, so `PerfSize` is a
constant, as are the `Elements` of a vector of sections and the size of the
matrix of `user-mat.c`.

**`VectorData`** is a `SCAPAR_VEC` and its three operations as functions on a
record: `cells` is the block of memory, whose size in bytes is a product of two
counters in `SCAPAR_IDX`, a `long` (`Wrap`, `NewBytes`; `IdxMax` stands for its
largest value). **`Vector`** is its use through the
public functions and refines **`ValueList`**. **`Table`** is made of columns
that are such vectors; `phase` and `col` make a row take as many steps as it
has columns, as the code does, and `Reused` chooses whether the program creates
a table where a destroyed one was. It refines **`TableRows`**. `live` and
`stale` are the memory of tables.

The `MC` modules give the constants values for TLC. The theorems are in
`RegistryProofs`, `LineReaderProofs`, `VectorDataProofs` (lemmas),
`VectorProofs`, `TableProofs`, `KeyLineProofs`, `SectionParserProofs`, and, on
the lemmas of the parser, `ScaparProofs`: finalisation, printing and then the
program that mixes all calls.

## Runs

| Run | Question | Bounds |
|---|---|---|
| `registry` | types, truthful flags, room, ownership, distinct keys, no keyword lost, "not sorted yet" only after an unchecked registration, refinement of `KeywordStore` | 3 sections, 3 keywords, spellings `A`, `a`, `b`; growth step 2 |
| `reader` | refinement of `LogicalLines`, with lines cut and whole, end of reading, types, no overrun | all Unix files of up to 4 short lines (3 when the last may lack its terminator); files of 2 lines of 0 to 10 bytes with all terminators, or 3 Unix lines of 1 to 7 bytes, without a backslash before CR LF; buffers of 5 bytes for the first line and 4 for others |
| `keyline` | trimming, telling lines, keyword, value and words | a line of up to 3 characters, then any of up to 4 in the same buffer of 8 |
| `printer` | marks, duplicates and bases put back in vectors of sections in vectors of sections over two parses, with printing in between | `TreeSchema`: 4 sections, 3 levels, 8 lines, 2 parses |
| `scapar` | parsing, printing and finalising in any order: no value twice or lost, memory freed once and owners last, nothing left but the strings named below, every call returns | `MixSchema`: every type at the top, in a section or in elements; 5 lines, conversions that read up to 1 line, 2 parses, 2 finalisations |
| `examples` | the programs of the repository on their own files, cut after any line | the whole files; 10 keywords of each kind for `perf`, 8 elements, a matrix of 100 rows and 460 entries |
| `vector` | types, room, refinement of `ValueList` | entries of 1 and 2 bytes, growth step 2, a largest byte count of 8 |
| `table` | types, complete rows, no table lost, refinement of `TableRows` | 2 columns (a number and a string), lines of up to 3 words, 2 tables, growth step 2, a largest byte count of 6 |
| `parser_repeat` | violated: a second entry of a scalar ends the program | `TreeSchema`, 4 lines, 1 parse |
| `parser_nested` | violated: marks of inner sections are not restored | `NestSchema`, 8 lines |
| `finalizer_nested` | violated: the section of an inner vector is freed with the first element | `DeepSchema`, 6 lines |
| `keyline_stale` | violated: a value is taken from behind the end of the line | one line of up to 4 characters |

Why the bounds suffice.

- Three sections give a root, a child and a grandchild or two children, the
  least where sorting through a parent, stopping at a sorted section and
  adopting by a vector all differ. With a growth step of 2 the third keyword
  crosses the boundary that is the seventeenth in the code.
- The buffers of 5 and 4 bytes are crossed by lines of 3, 4, 7 and 10 bytes and
  their terminators once, twice and more often, before, at and after terminator
  and backslash; shorter ones just fit.
- Three characters hold a keyword, a separator and a value, or a character
  between two spaces; the fourth of the second line gives two words of a
  vector, or a separator with spaces on both sides. The shorter first line
  leaves bytes in the buffer both before and behind the end of the second.
- Eight lines open two elements with one inner element each, give the same
  keyword in both, close them, and leave two lines to a second parse. Five
  lines fill a section inside an element, close both, and start another
  element; the mix of types makes the composition large, not the nesting, which
  `printer` and `finalizer_nested` have.
- A vector of the smallest growth step grows three times before the byte count
  of its two-byte entries leaves a range of 8, so every size at and around a
  growth and the wrap itself occur. Two tables are the least where one follows
  another in the same variable.

Deadlock is checked in every run; states where the process is gone, or the
program makes no more calls, stutter explicitly.

Fairness. The library runs in the calling thread and has nothing to wait for,
and the files considered are finite. `FairSpec` of the line reader is weak
fairness of its whole next-state relation. `FairScSpec` of the composition has
one weak fairness condition per kind of call, each on the steps of a call that
has begun (`Parsing /\ Running`, `Printing /\ printing # <<>>`, `Finalizing_ /\
phase = "finalize"`): a call is carried on to its end, but the program need not
make one. No fairness is assumed among the lines a file may hold or the
outcomes of a conversion. Registry, vectors and tables have no loops over steps
of the model and no liveness property.

## Where the code and its documents disagree

The four violated runs:

1. `parser_repeat`: the manual says of scalars that "If the keyword has multiple
   entries, the last one is applied" (section 4.1); the code calls the second
   entry a duplicate and exits (`scapar-sec.c` 500, 509, 518). `OncePerObject`,
   which holds, describes what the code does and is not what the manual says.
2. `parser_nested`: `scapar_sec_restore_parse_mark` is not recursive
   (`scapar-sec.c` 345): a keyword of a section inside an element is refused as
   a duplicate in the second element.
3. `finalizer_nested`: finalising the first element frees the section of a
   vector inside it although `destroy` is false, and the next element's vector
   follows it (61).
4. `keyline_stale`: the pointer is moved behind whatever character ends the
   keyword (468), so for a keyword alone on its line the value is what trimming
   or an earlier line has left behind the terminator.

Further configurations reproduce other disagreements; each names the property
that TLC finds violated:

| Configuration | Module | Property | What the counterexample shows |
|---|---|---|---|
| `registry_case` | `MCRegistry` | `RegisteredSectionIsFound` | lookups do not lower the key and do not test the result of `bsearch` (`scapar-sec.c` 204-206) |
| `registry_padded` | `MCRegistry` | `CheckedKeysUnique` | the duplicate query uses the key before its blanks are removed (242, 272) |
| `reader_crlf` | `MCLineReader` | `ImplementsLogical` | the index of the carriage return is one too low (403): it stays, and a DOS line that ends in a backslash is not continued, although the comment (385) says "remove \n and \r" |
| `finalizer_leak` | `MCFinalizer` | `NothingLeft` | strings of elements that the last element does not have are not freed: the shared marks decide (76) |
| `finalizer_outside` | `MCFinalizer` | `StaysInside` | the second visit of a vector's section reads behind the `SCAPAR_VEC` (60) |
| `printer_elements` | `MCPrinter` | `AllShown` | values of sections and of earlier elements are not printed (717, 745) |
| `printer_wild` | `MCPrinter` | `NothingWild` | a section that describes elements, printed by itself, has no base (723) |
| `table_again` | `MCTable` | `NotStale` | a destroyed table keeps its magic number and pointers (`scapar-table.c` 73) |
| `table_print` | `MCTable` | `PrintedIsTable` | the string column is printed from the pointer to the entry, not from the string |

## Proofs

All theorems hold for every value of the constants that satisfies the `ASSUME`
of the module they are about. Some need more, because the code keeps the
property only then. Each hypothesis is a definition of the proof module, the
files and trees of the passing runs satisfy it, and a configuration shows what
happens without it:

| Hypothesis | Says | Needed by | Without it |
|---|---|---|---|
| `Unpadded` | no keyword has blanks around it | `RegistryKeysUnique`, `RegistryImplementsStore` | `registry_padded` |
| `BackslashesVisible` | no line has a backslash before a CR LF | `ReaderImplementsLogical` | `reader_crlf` |
| `NoSectionInElement` | a section that describes elements has no section of its own | `ParserMarksTell`, `ParserRefusesDuplicates` | `parser_nested` |
| `NoVectorInElement` | elements hold no vectors of sections | `FinalizerFreesOnce`, `FinalizerNeverDangles`, `FinalizerFreesOwnersLast`, `FinalizerLeavesOnlyStrings`, `ScaparFreesRight` | `finalizer_nested` |

Three assumptions on constants tie modules together: `TreeAssumption` of
`SectionParser` (a registered section has at most one owner, older than itself,
and the root none) is what `RegistryTree` proves of the registry;
`OwnedAssumption` of `Finalizer` says that every section but the root has an
owner, since the library makes a section only for the keyword that is to own
it; `PrinterAssumption` says which base registration leaves in each descriptor.

### Registry

`RegistryTyped`, `RegistrySorted`, `RegistryCapacity` and
`RegistryUnsortedIsUnchecked` hold for any set of spellings, any `Lower` and
`Trim`, any bounds and any growth step of at least one. The inductive invariant
is `IInv == TypeOK /\ RootIsPrivate /\ SortedSound /\ CapacityOK`.
`RootIsPrivate` is what the checked invariants lack: no item owns the root and
no section pointer leads to it. Without it a registration through
`scapar_sec_register_offset` on the root would clear the root's flag and leave
the parser's copy set. The argument: `SecSortFacts` (a sort keeps lengths and
items, leaves sorted arrays alone and marks only arrays it has ordered),
`InsertKeepsInv` (one insertion, with the sort that may follow),
`LookupKeepsInv`, `QuietKeepsInv`, and one step per action in `NextKeepsInv`.
`UnsortedIsUnchecked` is inductive relative to `IInv`: a section still unsorted
after a sort has not been touched by it (`UnsortedUntouched`), so its unchecked
keyword is still there (`SortKeepsUnchecked`); an insertion leaves a section
unsorted only when it is itself unchecked, because a checked one is followed by
the sort (`InsertKeepsUnchecked`).

`RegistryTree` (`OwnershipTree`) and `RegistryKeepsRegistrations` (the action
property `RegistrationsSurvive`) rest on `TreeInv`: `IInv`, that no item occurs
twice in all arrays together (`Apart`), and that numbers in use have been issued
(`Issued`: offsets up to `nreg`, sections up to `nsec`, an owner older than what
it owns). `OwnershipTree` is not inductive without the bounds, since a new
section could be owned already. A sort only permutes (`PermutedTree`), an
insertion adds one fresh item. `RegistryKeysUnique`: the duplicate query uses
`bsearch`, so its answer is worth something only because `SortedSound` holds
when it is asked (`AcceptedIsNew`). `RegistryImplementsStore`: registering,
adopting and looking up are steps of `KeywordStore` on the ranges of the arrays;
sorting, growing and settings stutter.

### Line reader

`ReaderTyped` and `ReaderBufferFits` hold for all files and all buffer sizes
from 2 on. The strengthening is that the bytes counted in the buffer include
its terminator (so stripping never makes the count negative) and that the
buffer has two bytes. The step that matters is `ContinueText`: what is appended
has at most `BufSize - 1` bytes, so one growth by `BufSize` is enough although
the code tests only once.

`ReaderImplementsLogical` is the refinement of `LogicalLines`, which tells the
lines from the whole file where the code joins them one by one. `JoinInv` is
the link: what is in the buffer is what `LogicalLines` joins of the lines taken
so far, all of which leave the line open but possibly the last, and that one is
open as long as the buffer ends in a backslash (`LineSoFar`). `LineComplete`
shows that then, at the end of a line, the first logical line of
`taken \o file` extends over exactly the lines taken; `LineTaken` is the effect
of one more line, from `KeptFacts`, `InOrderFacts` and `InOrderAppend` about the
places of a sequence that are kept. A line read in pieces is one of
`LogicalLines` cut in two at the place of the line being read (`FgetsCuts`): a
cut is a step of its own when the piece stays in the buffer, and part of the
step that interprets the line when the piece, blank, ends it. The files need
only have every backslash where the code sees it (`Visible`, which what `fgets`
leaves of a line inherits, `FgetsVisible`): a line may be of any length and end
in any terminator.

### Vectors and tables

`VectorDataProofs` states what `scapar_vec_init` and `scapar_vec_add_entry` do
to any vector that is `VecOK` (its block has exactly `alloc` cells and as many
bytes as those need, and its size is at most `alloc`): they keep it so, and
`EntriesOf` grows by the entry at its end. `NewBytesExact` is the step about
the width of `SCAPAR_IDX`: a byte count that has wrapped is negative, so one that is not is exact.
That rests on `VectorAssumption` (no entry is so large that one growth passes
through the whole range). From these lemmas `VectorProofs` has
`VectorTyped`, `VectorBlockFits` and the refinement `VectorImplementsList`.

`TableProofs`: the inductive invariant adds to `TypeOK`, `RowsComplete` and
`NothingLost` that every column is `VecOK` and of its type (`ColumnsOK`), that
the columns already done hold the values of the line being added (`RowSoFar`),
and that lines are only read into a table that is there (`FilledIsThere`). From
it `TableTyped`, `TableRowsComplete`, `TableNothingLost`, and
`TableImplementsRows`: the steps that fill columns leave the rows a program can
see unchanged (`AddCellKeepsRows`), and `RowAdded` appends the row of the line
(`RowAddedAppends`), so the row by row promise is kept by a column by column
implementation.

### Section parser

For any tree of sections, any file and any number of parses. `FrameInv` is
`TypeOK` with the shape of the recursion: each frame of the stack is what its
caller would push for the object it is parsing (`StackOK`), and the data are
finite and older than the line (`DataOK`). `NextEffects` reduces the actions to
their effects on stack, marks and data (`NoEffect`, a value added, a call, a
return), so that each invariant is proved per effect.

- `ParserReaches` (`AllReachable`), with `ReachOK`: not only values, but also
  vectors still without values are in objects that are there. The number of an
  element is the number of entries plus one when the element begins, and no
  other element of the same vector can begin before it has been appended.
- `ParserOnce` (`OncePerObject`), with `OnceOK`: whatever has been given is
  marked, in the section being parsed for its current object, and in sections
  outside of vectors for any object (`MarkedIfGiven`). That the marks of a
  section that describes elements are reset at each element is harmless because
  a new element is an object nothing has been given in.
- `ParserMarksTell` and `ParserRefusesDuplicates` need the converse,
  `GivenIfMarked`, and that is where `NoSectionInElement` comes in.
- `ParserMarksExact` says what is left without that hypothesis, and after a
  section has returned: in an object that is newest in every vector it lies in
  (`Newest`: the element under construction if there is one, else the last
  that was appended), the marks tell exactly what has been given, up to the
  sections it holds. `ExactInductive` is by effect: a new element is newest,
  nothing has been given in it and its section's marks are reset (`Element`);
  when it is appended, `Building` ends and the number of entries grows by one,
  so the same object stays newest.

### Finalisation

`FinInv` is the inductive invariant behind `FinalizerFreesOnce`,
`FinalizerNeverDangles` and `FinalizerFreesOwnersLast`. Its parts:

- `CallsOK`, `PhaseOK`: each call in progress was made by the one below it, for
  an item that one has reached or passed, with the base address the item has;
  sections get younger from call to call (`Age`), so no call is for a section
  that a caller is working on;
- `NamesOK`, `ChildrenOK`, `ArraysOK`, `LiveOK`: a keyword's name is freed
  exactly when a destroying call has passed the keyword, a section exactly when
  the call for it has returned, an item array with its section; no call in
  progress is for a section that has ended, but for the second call of
  `scapar_finalize`, which finds no items;
- `ContentsOK`: nothing at or below a keyword that a call has yet to visit has
  been freed, except elements of the vector it is working on (`Ahead`), and a
  call works on what its callers have passed (`Behind`). Keywords that are
  `shifted` free no contents.

None of the three properties is inductive alone: that a block is not freed
twice is known only from where the calls in progress stand.

`FinalizerLeavesOnlyStrings` (`OnlyStringsLeft`) is the converse: what is given
back is not only given back once, but all of it is. Beside `FinInv` it needs

- `ParsedOK`, what parsing has left: the parser's invariants and `VectorsOK` (an
  initialized vector belongs to a keyword of its section; what is an element
  has an initialized vector), so that whatever has been allocated belongs to a
  keyword of the section its object leads to (`ContentFacts`);
- `BasesLead`: each call works in an object of its section;
- `RestOK`: each block of content has been freed, or is a string in an element
  whose keyword is unmarked (`Excused`), or is within reach of a call in
  progress (`Coming`), either in that call's own object or in an element or
  section below a keyword it has yet to finish.

A step frees what it takes out of reach: `ItemEmpties` for one keyword,
`DownEmpties` for the call into a section, `VectorEmpties` and `ElementEmpties`
for vectors of sections and their elements. A string in an element is skipped
exactly when its keyword is unmarked, which is why the property has the
exception. When no call is in progress nothing is within reach, and `AllEnd`
shows that every section has ended: of those that have not, take the oldest
(`LeastNumber` on `Age`); it has an owner (`OwnedAssumption`), which has ended and
so has passed it.

### Printing

`scapar_print` decides by the marks of a section, which all elements share,
so `PrinterShowsLast` (`LastElementsShown`) is about what the last element
left. Three invariants carry it:

- `ParsedExact`, from the parser: `MarksExact` above, with the parser's
  invariants. Between two parses nothing is under construction, so last is
  newest (`LastIsNewest`).
- `BaseInv`: only sections of which an element is being printed have another
  base than registration gave them, and the call for the vector holds the base
  to put back; sections nested in each other are different because of their
  ages. `PrinterRestoresBase` (`BaseRestored`) follows.
- `ShownInv`: the base of each section being printed is an object of that
  section (`Placed`), nothing is shown of a last element that was not given
  (`OnlyGiven`), and nothing due has been passed: a printable value of a last
  element has been shown, or a call in progress is still to come to it
  (`Pending`), in its own object or below one of its keywords.

`NothingPassed` is preserved because a call that leaves a keyword has either
shown it (`PrintItemKeeps`), was right to skip it, since an unmarked keyword has
nothing given in the last element and a vector not given has no elements, or
has begun a call to which everything below has moved (`PrintVectorKeeps`,
`PrintElementKeeps`). A call that returns had nothing left
(`SectionReturnKeeps`, `VectorReturnKeeps`). When the outermost call has no
keyword left, nothing is pending and all that is due is shown (`ShownAtLast`).

### Keyword line

The model works on the buffer, the properties speak of the line as the file
has it. `LineInv` relates the two: the buffer holds the text of the line from
byte 0 (`Holds`: its characters, then a terminator), and once trimmed that of
`Stripped(text)`; its last byte is a terminator, so that every search stops;
`str` and `p` are `KeyOf` and the first separator; and behind the keyword the
words taken are those that begin before `p`, which is between two words
(`WordsTaken`, `Boundary`). Nothing is said of the other bytes, which is the
point: whatever earlier lines left there has no effect.

`FirstFacts` and `SkipFacts` say what a search finds, `TrimHolds` what trimming
in place leaves, `KeyHeld`, `ValueHeld`, `BlanksHeld` and `WordHeld` what the
pointers delimit, all for texts of any length. `Word` numbers the words by how
many begin before, so that `NextWordIs` (the word found is the next one) and
`WordIs` (the number of those before it determines a word) give each the number
it is appended with. From `LineHeld` (`Spec => []LineInv`): `LineTrimmed`,
`LinesToldApart`, `LineKeyAndValue`, `LineWordsInOrder`. The last two speak of
lines with a separator; `keyline_stale` shows what happens without one, and is
why `WordsTaken` needs that premise. The proofs need of the files that a line
has characters other than the terminator and the newline and fits the buffer
(`KeyLineAssumption`; that it fits is `ReaderBufferFits`).

### Composition

`ScaparParses`, `ScaparPrints` and `ScaparFinalizes` show that a program that
mixes parsing, printing and finalising parses, prints and finalises as one that
makes no other calls (`ScSpec => Spec`, `ScSpec => PrSpec`, `ScSpec => FinSpec`),
so that all theorems above hold in it. `ScaparFreesRight` states the four of the
finalisation for it, `ScaparBaseRestored` and `ScaparShowsLast` those of printing.

### Lemmas and limits

Induction over numbers is done with `LeastNumber` (a set of naturals has a
least element, from the library's well-foundedness of `<`), since the library's
induction theorems take an operator.

Only model-checked are the four properties of `Examples`, whose programs and
files are fixed, so that a run says all there is to say for the sizes they
have; liveness (`Terminates`, `CallsReturn`), which with ENABLED is out of the
prover's reach; and the properties of the runs that expect a violation. For
`DuplicateIsReal` and `NoDangling` the theorems say under which hypothesis they
hold. Statements by induction over data are out of reach as well; where a fact
about a sequence of any length was needed, it was stated about places and
proved by taking the least place where it fails.
No module uses a RECURSIVE operator.

## Abstractions

- Text: in `LineReader` a line is a kind and a size, in the parser a keyword is
  a symbol; `KeyLine` has the characters. A backslash occurs at the end of a
  line only. When a line is cut, whatever its rest looks like is allowed.
- `KeyLine`: the buffer comes from `malloc` filled with zeros, the keyword fits
  `str`, `scapar_atoi` is modelled by which texts it accepts, `scapar_atof` is
  taken to accept what a number is.
- `scapar_error` and failed assertions end the process (the library is built
  with assertions by default).
- In `SectionParser` a keyword is known if the schema has it: that the query
  finds it is what the registry runs check. Values are the lines they come
  from; whether a conversion accepts a value is open, except in `Examples`.
- A vector of sections, of vectors or of tables has in `SectionParser` and
  `Finalizer` the elements the file has given; that the array itself holds them
  is what `vector` checks.
- `Printer` models which values are reached and from which base, not the text.
- In `Finalizer`, `Inside` says which keywords of an element lie in its first
  bytes, where the zeros of a destroyed `SCAPAR_VEC` stand in for them.
- `Examples`: variables of automatic storage are taken not to hold a magic
  number by chance. The file that `large.c` reads is not in the repository;
  that of `vec-section.c`, which has the same keywords, stands for it. A cut
  matrix file gives `scapar_atoi` an empty text, which ends the process.
- `MaxSec`, `MaxReg`, `MaxLines`, `MaxUser`, `MaxParses`, `MaxFinals` and
  `MaxTables` bound the models, in guards.

## Not modelled

- Memory wrappers (they exit on failure; for vectors and tables that outcome is
  an action), timing, the info constructors: no state a property could be
  about.
- Registration through `scapar_sec_register` directly on the root, and
  `SCAPAR_ITEM` pointers kept by the program across registrations. The former
  would leave the parser's copy of the flag stale; the public way to the root
  is `scapar_register`.
- Buffer sizes 0 and 1 (`ReaderAssumption`), keywords longer than 511
  characters, and changing the comment or section mark between two parses.
- Copies of a `SCAPAR_INFO` that share its column types: an item is taken to
  own them.
- The configure scripts, make files and the manual.

## State of the development

Every component with behaviour at run time has a module and a run, and every
safety property of the registry, the line reader, the keyword line, the section
parser, vectors, tables, printing, finalisation and their composition that a
passing run checks is stated by a theorem. What could be added: `Examples` for
any registered program whose items fit its file, instead of those shipped; the
text of printed values; and a model of `SCAPAR_ITEM` pointers kept across
registrations.
