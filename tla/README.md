# iiGeneralDocument in TLA+

iiGeneralDocument is a C++ library of document models: PDF pages, Word flow
documents, HTML and XML sources with stable block ids, and the *Thinking Space*
document (`.tsdoc`), which keeps its own version history.  It has no threads and
no server of its own.  What can go wrong lies in long sequences of calls on a
value, in two copies of one fact that have to stay in step, in operations that
throw half-way, in files read back from anywhere, in the converter process it
starts, and in several callers that save to one path.

All paths below are relative to `src/src/` of the repository.

## Inventory

| Component | State | Operations | Interacts with | Hard behaviour |
|---|---|---|---|---|
| Version history (`ThinkingSpace/ThinkingSpaceDocument.cpp`) | commits, snapshots, deltas, pruned count, shallow boundary | `record`, `pruneOldestVersions`, `collectUnreferencedObjects`, `verifyIntegrity`, `apply` | document, file | shared objects, retention limit, counter limit, throwing half-way, histories from files |
| Thinking Space document and file (`ThinkingSpace/ThinkingSpaceFile.cpp`) | header metadata, body, ledger, history | `edit`, `setFileAuthor`, `recordVersion`, `toFileBytes`, `fromFileBytes` | HTML body, ledger, history | ledger kept in two places; edits nested in drafts; callbacks that refuse |
| Authorship helpers (`Metadata/Authorship_p.hpp`) | none; ledger is iiFileProvider's | store and read the reserved key, markup envelope | every document type | body that looks like an envelope |
| HTML block documents (`Html/`) | source, blocks with ranges, hierarchy, next id | create, update, remove | iiXml's parser, ledger | ids carried over a re-parse by source range |
| XML tree documents (`Xml/`) | source, nodes with ranges, ids | create, update, remove | iiXml's parser, ledger | the same, and text between nodes |
| PDF page model and editor (`Model/`, `Editing/`) | pages, elements, form contents, annotations, fields, metadata, source bytes | about twenty edits, extract, merge, rotate | PDF reader and writer, ledger | reused ids, shared contents, edits that throw half-way |
| PDF reader, writer, PDF objects and their editor (`Pdf/`) | the bytes of a file | read, write, extract, merge, edit | QPDF | shared resources, synchronisation of model and file |
| Validation (`Validation/`) | none | checks a page model | page model | |
| Word model (`Word/WordDocument.cpp`) | blocks, section, metadata, ledger | append, `setMetadata`, `setFileAuthor`, `edit`, direct access | ledger, codecs | draft and stamp, a full ledger half-way |
| Word writing (`Word/WordDocumentWriter.cpp`, `Word/Private/`) | staged file, destination | write DOCX, ODT, FODT, DOC | file provider, converter | validation and publication order, crashes, concurrent saves |
| Conversion process (`Word/Private/ConversionProcess.cpp`) | child process, pipes, deadline, captured texts | run with a timeout | LibreOffice, kernel | full pipes, helpers, deadlines, lost status |
| DOCX and ODF codecs (`Word/Private/DocxPackage.cpp`, `OdfTextCodec.cpp`), Word reading | none beyond a call: numbers of lists, budget of expansion, pending white space | parse, validate, generate | Word model, libzip, pugixml | what is written must read back; files of foreign making; lists that continue one another; repeated cells |
| Core, Codec, IO | value types, interfaces | | | |

What makes them correct:

* history: it verifies after every recording; it gives back the newest contents
  in order; kept commits are never rewritten; a failed recording leaves no trace;
  a delta applies to its base and to nothing else;
* document: saving always succeeds and loading gives the document back; a changed
  edit is counted as often as it was stamped, and at least once; a version holds
  the ledger of its moment;
* conversion: it returns by the deadline, keeps what the converter wrote, never
  takes a crash for success, leaves no process behind;
* saving: the destination is the old file or a validated one;
* HTML blocks: ids are unique, never given out again, and follow their tags
  through every edit; removing a block takes exactly its subtree;
* PDF documents: ids are unique over pages and shared contents; a written file
  shows what the model says; what is not counted is not changed; the editor of
  models and the editor of files agree;
* XML trees: ids stand for the same element, under the same parent and in the
  same order, through every edit; no edit is refused but for exhausted counters;
* Word documents: a changed edit is counted, once if nothing in it was; what is
  saved reads back as far as the format can tell it; what was read can be saved;
  reading never makes more than the budget allows, and no budget changes what is
  read; lists of a file are joined only where the file says so.

## Modules

| Module | What it is | Code |
|---|---|---|
| `TextDiff` | byte deltas as pure operators | `makeTextDiff`, `ThinkingSpaceTextDiff::apply` |
| `CanonicalHeader` | the length-prefixed encoding of header metadata and its reader (recursive, TLC only) | `canonicalHeader`, `parseCanonicalHeader` |
| `VersionObjects` | the history value and every operation on it | `ThinkingSpaceDocument.cpp` |
| `VersionLog` | abstract: a bounded log that drops its oldest entry | |
| `VersionHistory` | a history in use: actions `Record`, `RecordThrows`, initial states new or from a file; refines `VersionLog` | `record`, catch block, `fromFileBytes` |
| `ThinkingSpaceDocument` | document, draft, saved file and their operations; uses `VersionObjects` whole | `ThinkingSpaceFile.cpp`, `recordVersion` |
| `Authorship` | the ledger, stored in metadata and in markup | `Authorship_p.hpp` |
| `Markup` | which tags pair to an element, and where it begins and ends | iiXml, as the HTML and XML documents use it (external) |
| `HtmlBlocks` | one HTML source, its blocks with ranges and ids, and their editor | `HtmlBlockDocument.cpp`, `HtmlBlockEditor.cpp` |
| `XmlTree` | one XML source, its nodes with ranges, ids and parents, and their editor | `XmlTreeDocument.cpp`, `XmlTreeEditor.cpp` |
| `MarkupEditors` | both documents and what their editors promise; composes `HtmlBlocks` and `XmlTree` | |
| `PdfFile` | files, the reading of a file into a document and the writing back | `PdfDocumentReader.cpp`, `PdfDocumentWriter.cpp`, `DocumentValidator.cpp` |
| `PdfDocument` | a document in use: edits, saving, extracting, merging; the edits of `pdf::Editor` | `DocumentEditor.cpp`, `Model/`, `Pdf/Objects.cpp` |
| `ConversionProcess` | caller, converter, its helper, pipes and clock | `runConversionProcess`, POSIX branch |
| `AtomicSave` | abstract: the promise of a save | |
| `WordSave` | several writers on one destination; package formats refine `AtomicSave` | writers of the four formats |
| `WordModel` | blocks of a Word document and the validation that both codecs make | `WordDocument.h`, `validateDocument` of both codecs |
| `OdfText` | OpenDocument paragraphs: style inheritance, white space, budget; their writing | `OdfTextCodec.cpp`, the first half |
| `OdfBody` | OpenDocument lists, tables and sections, read and written | `OdfTextCodec.cpp`, the second half |
| `OdfPages` | OpenDocument page layouts and master pages: the one geometry kept | `OdfTextCodec.cpp`, `selectPageLayout` |
| `DocxBody` | DOCX content, read and written, with its styles and numbering parts | `DocxPackage.cpp` |
| `WordMetadata` | metadata and ledger in both formats | both codecs |
| `WordDocument` | a Word document in use: its operations, drafts, saving and opening | `WordDocument.cpp`, entry points of the codecs |
| `VersionObjectsProofs`, `VersionHistoryProofs`, `ThinkingSpaceDocumentProofs`, `MarkupProofs`, `XmlTreeProofs`, `MarkupEditorsProofs`, `ConversionProcessProofs`, `WordSaveProofs` | theorems and their lemmas, each about the module of its name; `VersionObjectsProofs` holds those about deltas, and the lemmas about histories that the history's and the document's proofs share, `MarkupProofs` those about sources and splices, `MarkupEditorsProofs` those about HTML blocks and about both editors | |
| `MC*` | instances for TLC | |

`VersionHistory` and `ThinkingSpaceDocument` both compose `VersionObjects`, so
the history proved about is the one the document model uses.  Likewise
`ThinkingSpaceDocument` and `WordDocument` share `Authorship`, and `WordDocument`
instantiates both codecs over one `WordModel`.  `MarkupEditors` extends `HtmlBlocks`
and instantiates `XmlTree`; the two share nothing but `Markup`.

### How state and actions correspond to the code

**History.**  A history is a record with the five members of the class; each
`std::map` is a function from ids to objects.  An id is the pair of an object's
type and payload: equality of ids is then equality of payloads, which is what a
SHA-256 without collisions gives.  `recorded` is the whole of `record`, the
trailing `pruneOldestVersions` and its collection included; `canRecord` is its two
early throws; `rolledBack` is what the catch block leaves for each insertion that
may throw.  The pruned counter wraps at `MaxPrunedCount` as `std::uint64_t` does.
`verifyIntegrity` is split in its parts, in the order of the function.
`VersionObjects` takes the header encoding as a constant operator,
`encodedHeader`, that is only assumed to be injective; `CanonicalHeader` defines
the real one, and `MCVersionHistory` plugs it in.

**Document.**  `draft` is the copy on which an `edit` callback works; every
operation applies to the draft while there is one.  `CommitEdit` is what `edit`
does after the callback has returned true, `RejectEdit` a callback that returns
false or throws.  `EditBody` is an edit of the body by `HtmlBlockEditor`: equal
source, no change.  `WriteTitle` and `WriteReservedKey` are assignments to the
public header map.  The ledger is abstracted to a count of changes, the last
author and the active one, which its dump leaves out.  A body is a sequence of
tokens, so that an authorship comment inside a body can be told from text.

**HTML blocks.**  A source is a sequence of tokens, each one byte wide, so that
source ranges are positions in it.  iiXml's range tracker is external and modelled
from its use, in `Markup`, which the XML trees share: a closing tag belongs to the
nearest open tag of its name, so ranges may cross.  `CanReplace` gathers every throw of `replaceRange`, `replaced` is its
result, and `expectedRange` and `carriedId` are the search for the new place of a
block that keeps its id.  The hierarchy is rebuilt from the ranges after every
edit, so it is an operator of the blocks.  An edit that throws changes nothing and
is no action.  `marks` and `retired` are history variables: which edit wrote each
token, and which ids are gone; the code has neither.

**XML trees.**  As for HTML, but the ranges of nodes never cross (the document
refuses such a source), ids are bound to several ranges in one edit, and a
self-closing parent is opened up.  `prologAccepted` and `containsOnlyXmlMisc` are
the checks of what stands around the root.

**Word.**  A paragraph is a record; of the properties of a run three stand for
all seven: a flag (bold), a number that formats round (the size) and a text that is
normalised (the colour).  XML is the tree of elements that the readers see, so
`XmlReader` and `XmlWriter` are taken to be exact.  `parseBody` threads the
reader's context through the blocks in document order: the budget, the ids and the
last of the lists met, and the next list number; `failed` stands for the errors that
abort an expansion.  `PageStyleCatalog` holds the layouts and
master pages of a file, of which `selectedLayout` picks the one geometry that a
document keeps: by the first style of the text that applies a master page, else by
the first master page, else the first layout.  Lengths are whole twips.
`makeWritePlan` collects the automatic styles in the order of
the code; the names it gives are pairs such as `<<"IGDP", 7>>`.  In `WordDocument`,
`Becomes` directs an operation to the draft while there is one; an operation that
throws is the identity on what it leaves as it was, except that `blockAppended`
keeps the block.  `Open` reads a file of any making, `Reopen` goes on with what
was saved.

**PDF.**  A file is pages and form XObjects, each with a stream of instructions
and the number of its `/XObject` dictionary; dictionaries are taken to be indirect
objects, so that several owners may share one.  A form that draws others has a
higher number than they, by which a form that is being read is told from one that
has been.  `readBytes` counts ids in the reader's order: the forms that a page
names first, nested ones before their owners, then the page.  `contents` maps a form's
number to its elements, for a `FormContent` is shared by all elements that draw
it.  `origin` holds the file that was read, to which `writeBytes` applies the
document; `installedIn` gathers the images that all users of one dictionary add.
Names are pairs such as `<<"IiEdited", 5>>`, a suffix a third component.  An image
is its payload, a note its contents.  The ledger is a count of changes
that `MaxAuthorship` limits: `recordChange` counts a change that stays made when
counting throws, `prepared` one that is not made then.  `Derive` goes on with the
extracted or merged document in place of the old one.  QPDF's naming of copied
fields is external (`uniqueNames`).  The operators `nativeRotate` to `nativeMetadata` are the edits
of `pdf::Editor` on a file; they keep no state and are compared, not stepped.

**Conversion.**  `pc` follows the loop of `runConversionProcess` at one read per
step.  Texts are lengths, for a pipe is FIFO.  `leader` is the process waited
for; `helper` is one it may start in its group.  `doomed` holds processes that
were sent SIGKILL and may still run.  `autoReap` is an application that ignores
SIGCHLD: `waitpid` then finds no child once it has ended.  `waitFailed` stands
for the sentence appended to the error text.

**Saving.**  `Plan` lists the steps of each format in the order of its function:
the DOCX writer checks before it creates the directory, the ODF writers after.
All calls share one path and hence one `format`, chosen in `Init`.  A file is
`sound` if the library can read it back; zip, XML and LibreOffice may produce
either kind.  `Publish` is the rename of `atomicReplacePreservingPermissions`, `Replace` the
`File::write` of `convertWordFile`; both are taken to be atomic, as the file
provider promises.

## Runs

| Run | Question | Result |
|---|---|---|
| `content_encoding` | do deltas rebuild their target and invert, is the header encoding lossless; does a Word document read back from both formats and count its edits; are lists joined only on demand, is repetition paid for? | yes |
| `version_history` | integrity, survivors, rollback, refinement of the log | hold |
| `any_file` | does the boundary stay the parent of the first kept commit, whatever file was read? | no: finding 1 |
| `thinking_space` | do header, body, ledger and history stay in step and survive saving? | yes |
| `foreign_comment` | also with a body that holds an authorship comment? | no: finding 2 |
| `same_profile` | is selecting the same profile never a change? | no: finding 3 |
| `markup_editors` | HTML and XML: do ids stay unique and with their elements, is no edit refused without need, is a removal exact, where does a created block go? | hold |
| `pdf_document` | do ids stay unique, does the file show what the model says, do both editors agree, is everything counted? | hold |
| `conversion` | capture, exit status, timeout and return; does draining alone keep the converter from blocking? | hold |
| `conversion_endless` | does the timeout bound a converter that never stops writing? | no: finding 4 |
| `word_save` | are saves of package formats atomic under concurrency, failure and crash; is a `.doc` at the destination readable if its writer succeeded? | yes |
| `legacy_unvalidated` | is a `.doc` validated before it replaces the destination? | no: finding 5 |

### Bounds

* `content_encoding`: every pair of texts of up to four bytes over two letters:
  enough for prefixes and suffixes that overlap; header maps over names and
  values that contain digits, colons and line ends, one of them longer than nine
  bytes so that a length takes two digits.  In a behaviour only the texts, only
  the metadata or only the Word document moves.  The document is used freely with
  one block, two changes and two keys; grows by up to four list items on three
  levels (`ListFamily`, with tables), three styled paragraphs or one paragraph of
  two runs over every text of two characters and a few longer; and is opened from
  thousands of files whose spans, lists, linked lists, repeated cells, page layouts
  and metadata are enumerated.  Its pages are changed while it has no metadata but
  its ledger, which keeps the two choices from multiplying.  Nesting ends at four (128 in the code), list levels at
  two (8), so that both limits are met and passed.  `ExpansionIsAccounted` reads
  each file again under budgets around what it costs.
* `version_history`: two commits are kept (100 in the code), the counter ends
  at 2 (2^64 - 1 in the code), two header maps, three bodies that are prefixes of
  one another; files with intact, shallow, exhausted and damaged histories.  Two
  kept commits are enough for sharing, pruning and the boundary to meet; the
  theorems below do away with the bounds.
* `thinking_space`: at most three changes in the ledger (`MaxRevision`), two
  commits, one prune, one author beside the unattributed one.  Nested edits,
  versions inside a draft and a stale header need two changes.
* `markup_editors`: only one of the two editors edits in a behaviour.  HTML: two tag
  names, sources of up to six tokens that nest, close themselves and cross, five fragments of which two are refused, three edits, and
  ids up to eight, so that the counter runs out in the middle of an edit.  XML:
  a source with a prolog and one of a single element, five more that have to be
  refused, fragments with white space, a comment and a crossing, three edits.
* `pdf_document`: two changes and any number of saves.  `Shared` has two pages and
  two forms on two dictionaries, a form drawn by both pages and by the other form,
  an image drawn by a page and by a form, and an image named as the writer would
  name the first page's replacement, so that a name is taken after one edit; two of
  its fields, on different pages, have one name, which both editors have to refuse
  as ambiguous, each by its own rule (`editableFields`, `nativeField`).
  `Small` shares names and a field name with it, and has a change in its ledger
  already, so that counting throws.  Two pages, one new text, two payloads.  Two
  changes suffice for every pair of edits with a save before, between and after
  them; the sequences that matter here (remove then add, replace then save then
  replace, extract then merge) have two.
* `conversion`: reads of two bytes, pipes of two, a capture limit of one and three
  bytes per stream (`MaxOutput`): a pipe fills up, chunks straddle the limit and
  output is left behind after the last read.
* `word_save`: three calls, which share a path and hence the format chosen for it
  initially.

`CHECK_DEADLOCK FALSE` is set where the system stops: a history whose counter is exhausted, a document or an HTML source at
`MaxRevision`, a PDF whose caller has stopped after an exception, a call that has
returned, saves that have all ended.

### Fairness

Only `ConversionProcess` has liveness.  `Spec` is fair to the caller's thread, to
the clock and to the delivery of SIGKILL.  `hurried` is chosen initially: if it
holds, the deadline may pass and nothing is asked of the converter, which is what
a timeout is for (`ReturnsByTheDeadline`).  If it does not, there is no clock and
no helper, and `Convert` is fair: a converter that writes all it has and then
ends.  `DrainingSuffices` then shows that the drain loop alone keeps it from
blocking.  The counterexample of `conversion_endless` is fair to the caller and
the clock: the caller reads for ever.

## Findings

1. A file may declare pruned history and keep no commit; `verifyIntegrity`
   accepts it, and the first `record` makes a history that does not verify.
2. A body with an authorship comment in it is saved and cannot be loaded.
3. After a body edit outside `edit`, selecting the profile recorded last inside
   `edit` counts as a change, for the header's stale copy is refreshed.
4. The drain loop has no deadline: a converter that writes without pause is never
   timed out.
5. A `.doc` replaces the destination before it is validated.

These limits of the code shape the properties instead of having a run:

* `versionHistory` is a public member, and `record` called on it directly stores
  any header.  One with an unreadable reserved key is saved and refused at the
  next load.  `SavedFileReloads` is about recording through `recordVersion`.
* Where SIGCHLD is ignored, `waitpid` fails, the status keeps its initial zero,
  and a failed conversion has exit code 0 beside a note in its error text.
  `SuccessIsTheConverters` excepts `waitFailed`.
* The validation of a `.doc` reads the destination, which another save may have
  replaced.  `SuccessfulSaveIsReadable` is therefore about the file that is at the
  destination, not about the one a successful call had written.
* A validated continuation may follow a paragraph of an outer item (levels 0, 1, 0
  continued, 1 continued): the ODF writer then makes it the first paragraph of a
  new item, where `docs/ODF_SUPPORT.md` has it stay in its item.
  `SavedFileReadsBack` leaves these documents out of its ODF part
  (`ContinuesClosedItem`).
* Some documents that were read are refused when saved: one with a `list-header`
  in a list inside an item, one with a table without rows or a row without cells
  (rows inside `table:table-header-rows` are skipped), a six-character colour that
  is not hexadecimal, and from DOCX any other colour but `auto` and a negative
  number.  `CanBeSavedAgain` excepts exactly these.
* DOCX: the text of `w:moveTo` is skipped as that of `w:moveFrom` is, so moved text
  is lost; a level without a number is read and lost with the next save; sizes in
  odd quarters of a point are rounded up.
* OpenDocument metadata: author and last editor fill each other in, the
  application is always replaced, empty values are dropped (`NormalMetadata`).
* A user's style named like a generated one (`IGDP1`) stands for it when read.
* `appendParagraph` and `appendTable` append before they count: where the ledger is
  full the block stays, uncounted.  `EditsAreCounted` is about `edit` and
  `setMetadata`.
* An XML tree whose root was removed is saved and not loaded, for a source needs a
  root; `EditsAreNotRefused` asks for loading only while there is one.
* `HtmlBlockEditor::create` inserts at the end of the parent's value.  For a
  self-closing parent that is behind the parent, and where another block begins
  inside the parent and ends outside it, the new block lies in both.
  `docs/HTML_BLOCK_CRUD.md` says that it becomes the last child, which
  `XmlTreeEditor::create` sees to by opening a self-closing parent up.
  `EditsFollowTheHierarchy` excepts both cases.
* `addText`, `replaceText`, `replaceImage`, `remove`, `addAnnotation` and their
  like change the document before `recordChange`, which may throw at the ledger's
  size limit; the change is then made but not counted.  `UncountedIsUnchanged`
  excepts them, and shows that the batch edits, `addTextNote` among them, are made
  wholly or not at all.
* `setPdfVersion` is counted but the writer never writes the version; metadata
  under a key of the caller's own is kept, counted and not written.
  `WrittenAsModelled` is about the keys that the writer writes.
* `replaceImage` compares with an earlier replacement, not with the image that was
  read: replacing an image by itself is counted.
* Ids are unique at a time: that of a removed last element is given out again.

## Proofs

All theorems are about `Spec` for every value of the constants that meets the named
assumptions of its module; TLC evaluates these on the instances it checks.

| Module | Theorem | States |
|---|---|---|
| `VersionObjectsProofs` | `TextDiffExact` | what a delta does, for all texts |
| `VersionHistoryProofs` | `HistoryTypeOK`, `HistoryVerifies` | `TypeOK`, `Integrity` |
| | `HistoryKeepsSurvivors`, `FailedRecordIsUndone` | `SurvivorsUntouched`, `FailedRecordLeavesNoTrace` |
| | `HistoryImplementsLog` | the refinement `ImplementsLog` |
| | `DeltasApplyToTheirBaseOnly` | `DiffsApplyToTheirBaseOnly` |
| `ThinkingSpaceDocumentProofs` | `DocumentTypeOK`, `EverySaveReloads`, `VersionsHoldTheirLedger`, `EditsAreStampedOnce` | `TypeOK`, `SavedFileReloads`, `VersionsCaptureTheLedger`, `EditsStampOnce` |
| `MarkupEditorsProofs` | `HtmlTypeOK` | `TypeOK`, the HTML half of `DocumentsOK` |
| | `IdsAreNotReused`, `IdsStandForTheirTags` | `IdsNeverReturn`, `BlocksKeepTheirIdentity` |
| | `UncutEditsAreAccepted` | `OnlyCrossingsAreRefused`, the HTML half of `EditsAreNotRefused` |
| | `EditsKeepTheHierarchy` | `EditsFollowTheHierarchy` |
| `XmlTreeProofs` | `XmlTypeOK` | `TypeOK`, the XML half of `DocumentsOK` |
| | `NodesKeepPlace` | `NodesKeepTheirPlace` of `XmlTree` |
| | `ElementsAreNotRefused` | `NoElementIsRefused`, the XML half of `EditsAreNotRefused` |
| `MarkupEditorsProofs` | `EditorsDocumentsOK`, `EditorsRefuseNoEdit`, `EditorsKeepNodes` | `DocumentsOK`, `EditsAreNotRefused`, `NodesKeepTheirPlace` |
| `ConversionProcessProofs` | `CallTypeOK`, `CallCapturesTheOutput`, `CallReportsTheConverter`, `CallStopsTheGroup` | `TypeOK`, `LeaderOutputCaptured`, `SuccessIsTheConverters`, `TimeoutStopsTheGroup` |
| `WordSaveProofs` | `SaveTypeOK`, `SuccessIsReadable` | `TypeOK`, `SuccessfulSaveIsReadable` |
| | `PackagesSaveAtomically` | the refinement `SavesAtomically` |

In every state machine the invariants follow from one inductive invariant, `IInv`.

**Deltas.**  `makeTextDiff` gives, for all texts over any alphabet, a well-formed
delta that applies to its base and yields its target.  The argument needs that the
common prefix and suffix, which the code counts up in loops and the model defines
as the largest counts that agree, exist and do not overlap (`CommonBytes`, from
`MaxBounded`).

**History.**  `Integrity` is not inductive: with no commit kept and a pruned count,
the first recording breaks it (finding 1).  The invariant is: the history is well
formed, linked (every part of `verifyIntegrity`), within the limit, and has a
pruned count of zero while it keeps no commit.  `IntegrityIsLinked` relates it to
`verifyIntegrity`; `AppendedSound` carries it over a new commit, which may break
only the limit; `PrunedSound` over the prune, which restores it; and
`RolledBackIsUnchanged` shows that the catch block is an exact undo.  Initial
states from files are covered by `WrittenByLibrary`, which files of the library
meet and which `any_file` drops.

For the refinement a history is read as the log of what its commits' snapshots say.
Recording appends to that log, for the snapshots of kept commits are never
rewritten, and pruning drops its front, so that a recording is one step of the log
and a rolled-back one a stutter.  `DiffsApplyToTheirBaseOnly` uses that a delta
that is stored was made from the parent's body, and that it names its base by its
id, which no other text has.

**Document.**  The invariant says of the document, of the draft and of what the
saved file loads into that they are sound: ledger and reserved key agree where they
have to, the history is that of `VersionObjectsProofs`, its versions' ledgers rise
with their order up to the document's, and versions of one count hold one body.
The last is stronger than what a run checks, and needed: that two neighbouring
versions agree follows from what each has in common with the document that was
current.  The draft is ahead of the document by exactly its stamps, from which
`EditsStampOnce` follows.  The theorems have the hypothesis `OwnCommentsOnly`: no
body holds an authorship comment.  It is no assumption of the module, because the
run `foreign_comment` drops it, and shows that saved files do not reload then.

**HTML blocks.**  The invariant: the blocks are those that the source parses into,
under ids that differ and that the counter has passed; it has passed those of the
blocks that are gone as well, and none of them is in use; every token has a mark of
its own.  `StepsAreEdits` shows that create, update and remove make only edits that
fit: an id from the counter is given to an insertion, the id of a block to a change
of its range, and the source changes.  Then:

* `GivenIds`: ids carried over are older than those given out, and no two blocks
  get the same.  A carried id stands for one old block, whose expected range is one
  parsed block's, for no two elements begin at one place (`ParsedBlocks`, from
  `StartsAreCounted`); new ids count up by `CountInFrontDiffers`;
* `ExpectedIsMoved`: the range that the editor computes for a block is where its
  two tags have been moved to, exactly for the blocks that it preserves;
* `IdentityByRanges`: a parsed block gets the id of the block whose tags have
  moved to its ends, or into whose place update has put it, and no other.  Blocks
  that overlap without nesting are no exception;
* `MarksMove` relates the ranges to the marks of the tokens, and so the last to
  `BlocksKeepTheirIdentity`.

That no edit is refused which cuts through no block needs the pairing itself, which
knows nothing of ranges.  `Excess` counts the tags of given names that a range opens
less those that it closes:

* an element ends where its excess first returns to zero (`EndsWhereClosed`), and
  tags pair just when the excess of every prefix is never below zero and that of
  the whole is zero, for every set of names (`PairedIsNeverShort`,
  `NeverShortIsPaired`).  A first return is a minimum, so no induction is needed;
* a range that no element reaches out of or into has an excess of zero
  (`ExcessOfRange`), and that is what `Crossed = {}` says of the range of a block
  (`UncutRangePairs`), for blocks inside it may overlap as they like;
* the empty range at the end of the source or of a parent has no tags, and no block
  is changed in part by an insertion there, so that creating a block cuts through
  nothing (`CreationsCrossNothing`);
* paired tags put in its place pair with the rest (`SplicePairs`); their elements
  end where they did in them (`InnerEndsMove`), and all others where their ends have
  moved to (`OuterEndsMove`), which is the expected range by `ExpectedIsMoved`.

The hierarchy is a function of the ranges, and ranges may overlap, so that what an
edit does to a range says nothing yet of what hangs below a block.  For every edit
(`EditsKeepTheHierarchy`):

* `MarksTellTheEdit`: the marks tell which range an edit replaced, so that a step that
  looks like a removal, or like an insertion at the end of a block, is one;
* `SubtreeIsInRange`: what hangs below a block that nothing crosses is what its range
  holds.  A set of blocks that has the children of its members is followed upwards:
  of the blocks in the range that are missing from it, the first one's parent is in
  the range too, and begins before it.  The subtree is the intersection of
  these sets, which needs no recursion;
* `InsertedBlocks`, `ParentsAfterInsertion`: an insertion moves every block's range, and
  the parents with them; of the blocks inserted only the outermost has the parent for
  its own (`InsertionEndsIn`: no other block around the place begins later);
* `NthWithLast`: children are listed by their rank among the blocks, which the
  insertion keeps, and the new one has the last (`ChildrenAfterInsertion`).

**XML trees.**  The theorems have the hypothesis `XmlAssumption`: sources and
fragments are sequences of tokens, and the bounds are numbers.  The invariant is
that of HTML blocks, with the tree in place of the list: the nodes are the elements
of the source in the order of their start tags, no two cross, and the parent, the
depth and the children of each are those that its range gives it.  That no two
cross holds of parsed trees only, for a source whose tags do not pair is refused.
Names and ranges are found again as in `HtmlBlocks`; what is new is the tree:

* `ParsedNodes` and `Families`: the body is parsed behind its prolog, the parent of
  a node is the last one that begins before it and ends behind it, and the children
  are listed in order, each once, by rank (`EveryRankIsTaken`);
* `RemappedNodes` and `FamilyOfForest`: to give every node its old or new id keeps
  the tree, for the ids differ;
* an edit sends each node apart from its range to one successor, and what update or
  an opened parent puts in a node's place succeeds that node.  `SuccessorsKeepOrder`
  compares two nodes with their successors, by order and by containment;
  `AroundStays` and `AroundStayed` show that what is around a successor succeeds what
  was around the node; so depth and parent stay (`PlacesStay`);
* the children that stay are successors in the old order (`ChildrenStay`), and no new
  child precedes one of them, for create appends: its insertion ends where its parent
  does (`NewChildrenComeLast`);
* `OneIsReplaced`: only the successor whose own tags were written anew has other marks.

That no edit of an element is refused says that what it leaves parses again, and
that every node apart from it is found where the editor expects it.  A source
parses just when its prolog is in order and its body is one tree, or empty
(`ParsesIsTree`): paired tags whose elements nest, the first around all of them, and
nothing behind it but comments, instructions and white space.  Then:

* `WholeSplice` and `NestedSplice`: paired and nested tags put in the place of a
  range that no element crosses leave paired and nested tags, and move every element
  as the two positions of its tags are moved;
* such an edit of a tree, inside its root or in the root's place, leaves a tree
  behind the same prolog (`TreeEditsLeaveTrees`), in which every old node apart from
  it and every element of the replacement is found, and nothing else
  (`TreeEditsMoveElements`);
* so all bindings and all preserved nodes are found, and new ids are needed only for
  the elements of the replacement that no binding names (`TreeEditsAreFound`).
  Counting these is what shows that the ids the property asks for suffice
  (`TreeEditsAreAccepted`);
* creating, updating, opening up a self-closing parent (`WrappedIsNested`) and
  removing any node but the root are edits of this kind.  Without the root the whole
  source is prolog; its removal has a proof of its own (`RootRemovalIsAccepted`).

**Both editors.**  A behaviour of `MarkupEditors` is one of either editor
(`EditorsWorkApart`), so that its properties follow from the theorems about each.
The module instantiates `XmlTree`, its proofs the module `XmlTreeProofs`; that the
definitions of the two instances agree is shown one by one (`InstancesAgree`).

**Conversion.**  The invariant accounts for every byte: what a process has written
is captured, still in its pipe or cut off at the limit; each program counter is
tied to what is known of the leader's end; the status is the leader's or reported
as unknown; and from the timeout on every process of the group has been sent
SIGKILL or has ended.  It holds for pipes, buffers and limits of any size.

**Saving.**  The invariant ties each writer's step to its files: a package is
published only when what was staged has been validated, and a `.doc` reports success
only after what it put, or found, at the destination was read.  A format's plan is
evaluated in `PlanLengths` and its likes, the only place where the steps are
numbered; the number of writers is any.  A save of a package format maps to a
stutter of `AtomicSave` until `Publish`, which is its one step.

Only model-checked:

* liveness (`ReturnsByTheDeadline`, `DrainingSuffices`): the prover has no fairness;
* the codecs, `CanonicalHeader`, `OdfText`, `OdfBody`, `OdfPages` and `DocxBody`, with
  `WordDocument`, which uses them: they are recursive, and what a recursion gives
  for every input needs an induction over data that the prover cannot make;
* `PdfDocument` and `PdfFile`, whose pages, forms and fields are walked by folds and
  recursive functions.

## Not modelled

* SHA-256 collisions, JSON and Base64 syntax, text that is not UTF-8 (saving
  throws), schema 1 files, the 64 MiB limit.
* Allocation failures outside `record`'s try block.
* The Windows branch of the conversion process; helpers that leave the process
  group; where LibreOffice is found.
* Of DOCX and ODF: the zip container, relationships and manifest, font faces,
  lengths whose sum overflows an `int` in the validation of a page, the other four
  properties of runs (which are read and written like the three), limits on bytes of
  XML parts, warnings; the choice of a reader and the conversion of a `.doc` that is
  read.
* File permissions; staged files left by a crash, which nothing reads.
* Of XML trees: namespaces, entities, the ledger beyond its count, and the
  byte-level syntax of tags, which iiXml decides.
* Of PDFs: signed, encrypted and XFA inputs, which are refused; fonts, page
  geometry, appearances, attachments, the keys of an annotation beside its
  contents; copies of annotations that keep their source object; form contents
  that a caller makes, which have no object to be written to; `addFormField`, which
  the writer refuses; direct changes of the public vectors; forms nested deeper
  than the reader's limit of 32.
* The components marked `not_modelled` in `PROJECT.json`.

## Plan

1. `ThinkingSpaceDocument` over `HtmlBlocks`, its body's edits refined to theirs.
2. The caller's own form contents, copied annotations and page changes in
   `PdfDocument`; the postconditions that `serialize` checks in `pdf::Editor`, with
   the failure of each.
3. The choices of `syncFormFields`: fields found by object or by former name,
   renamed fields, values that the writer refuses.
4. Package relationships of DOCX: styles and numbering that a package points to.
5. Proofs: the id uniqueness of `PdfDocument`, and `UncountedIsUnchanged`.
