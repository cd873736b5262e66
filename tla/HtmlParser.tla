----------------------------- MODULE HtmlParser -----------------------------
(***************************************************************************)
(* From the JSON of a publication page to its chunks (parse_publication),  *)
(* and from chunk rows back to a module (fetch_module_text).               *)
(*                                                                         *)
(* A fragment is a stripped piece of text, a sequence of words; the empty  *)
(* one is what is left of a blank.  A text is a sequence of lines, each a  *)
(* fragment.  HTML tags, entities and white space are gone from both.      *)
(***************************************************************************)
EXTENDS SequencesExt, Listing

CONSTANTS
    Words,   \* words of the manuals
    Hashes,  \* section hashes of the pages
    NoHash   \* a node without a hash

ASSUME HashAssumption == NoHash \notin Hashes

Fragment == Seq(Words)
Text == Seq(Fragment)

\* A block's content as a flat list of items, and its pictures' captions.
Item == [text : Fragment, captions : Seq(Fragment)]
Block == [dict : BOOLEAN,              \* FALSE: no JSON object, skipped
          list : BOOLEAN,              \* its type is "toolList"
          hash : Hashes \cup {NoHash},
          title : Fragment,
          content : Seq(Item),
          captions : Seq(Fragment),
          tools : Seq(Fragment)]
Module == [dict : BOOLEAN,
           hash : Hashes \cup {NoHash},
           title : Fragment,
           tools : Seq(Fragment),
           children : Seq(Block)]
Page == [tools : Seq(Fragment), modules : Seq(Module)]

HtmlChunk == [ord : Nat, text : Text, anchor : Hashes \cup {NoHash},
              parent : Hashes \cup {NoHash}, link : Hashes \cup {NoHash}]

-----------------------------------------------------------------------------
NonBlank(fragments) ==
    Keeping(fragments, {k \in DOMAIN fragments : fragments[k] # <<>>})
Dicts(nodes) == Keeping(nodes, {k \in DOMAIN nodes : nodes[k].dict})

\* The entries on one line, no line when there are none.
ToolListText(entries) ==
    IF NonBlank(entries) = <<>> THEN <<>>
    ELSE <<<<"Tools:">> \o FlattenSeq(NonBlank(entries))>>

ImageCaptions(captions) == NonBlank(captions)

ContentTexts(items) ==
    FlattenSeq([k \in DOMAIN items |->
      NonBlank(<<items[k].text>>) \o ImageCaptions(items[k].captions)])

\* The lines without the repetitions of a line.
Deduplicated(text) ==
    Keeping(text, {k \in DOMAIN text : \A j \in 1 .. k - 1 : text[j] # text[k]})

\* A block that is a tool list has its content read as tool items.
BlockText(b) ==
    Deduplicated(NonBlank(<<b.title>>) \o
      (IF b.list THEN ToolListText([k \in DOMAIN b.content |-> b.content[k].text])
       ELSE ContentTexts(b.content) \o ImageCaptions(b.captions)
              \o ToolListText(b.tools)))

Piece(text, anchor, parent) ==
    [text |-> text, anchor |-> anchor, parent |-> parent,
     link |-> IF anchor # NoHash THEN anchor ELSE parent]

\* mutant: the heading follows the module's tools
ModulePiecesToolsFirst(m) ==
    <<Piece(ToolListText(m.tools), NoHash, m.hash),
      Piece(NonBlank(<<m.title>>), m.hash, m.hash)>>
      \o [k \in DOMAIN Dicts(m.children) |->
            Piece(BlockText(Dicts(m.children)[k]), Dicts(m.children)[k].hash, m.hash)]

\* The heading, the tools, the blocks.
ModulePieces(m) ==
    <<Piece(NonBlank(<<m.title>>), m.hash, m.hash),
      Piece(ToolListText(m.tools), NoHash, m.hash)>>
      \o [k \in DOMAIN Dicts(m.children) |->
            Piece(BlockText(Dicts(m.children)[k]), Dicts(m.children)[k].hash, m.hash)]

\* Empty pieces are dropped, the others numbered from 1.
ParsePublication(page) ==
    LET modules == Dicts(page.modules)
        pieces == <<Piece(ToolListText(page.tools), NoHash, NoHash)>>
                    \o FlattenSeq([k \in DOMAIN modules |-> ModulePieces(modules[k])])
        kept == Keeping(pieces, {k \in DOMAIN pieces : pieces[k].text # <<>>})
    IN [k \in DOMAIN kept |->
          [ord |-> k, text |-> kept[k].text, anchor |-> kept[k].anchor,
           parent |-> kept[k].parent, link |-> kept[k].link]]

-----------------------------------------------------------------------------
\* fetch_module_text over a document's chunks: the texts of those that name
\* the module, in their order.
ModuleText(chunks, parent) ==
    LET its == Keeping(chunks, {k \in DOMAIN chunks : chunks[k].parent = parent})
    IN FlattenSeq([k \in DOMAIN its |-> its[k].text])

\* The words printed under a hash, read off the page itself: the headings,
\* tools, paragraphs and captions of the modules that carry it.
WordsOf(fragments) == UNION {ToSet(fragments[k]) : k \in DOMAIN fragments}
PrintedInBlock(b) ==
    ToSet(b.title)
      \cup (UNION {ToSet(b.content[k].text) : k \in DOMAIN b.content})
      \cup (IF b.list THEN {}
            ELSE WordsOf(b.captions) \cup WordsOf(b.tools)
                   \cup UNION {WordsOf(b.content[k].captions) : k \in DOMAIN b.content})
PrintedIn(m) ==
    ToSet(m.title) \cup WordsOf(m.tools)
      \cup UNION {PrintedInBlock(b) : b \in ToSet(Dicts(m.children))}
PrintedUnder(page, hash) ==
    UNION {PrintedIn(m) : m \in {m \in ToSet(Dicts(page.modules)) : m.hash = hash}}

\* The title of the first of them.
TitleUnder(page, hash) ==
    LET modules == Dicts(page.modules)
    IN modules[Least({k \in DOMAIN modules : modules[k].hash = hash})].title
=============================================================================
