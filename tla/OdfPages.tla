------------------------------- MODULE OdfPages -------------------------------
(***************************************************************************)
(* OdfTextCodec.cpp, the part about pages.  A file has page layouts, which *)
(* give a geometry, and master pages, which name a layout; a style may     *)
(* apply a master page.  Of all of them the model of a document keeps one  *)
(* geometry: that of the page the text begins on, as far as can be told.   *)
(*                                                                         *)
(* Layouts and masters are sequences in the order of the file.  A layout   *)
(* has a sequence of property elements, each a record of some of the       *)
(* lengths of a section and of "margin", in twips.                         *)
(***************************************************************************)
EXTENDS OdfText

NoPages == [layouts |-> <<>>, masters |-> <<>>]

Margin == {"top", "right", "bottom", "left"}

(* A length that is not negative, or the one it would replace.             *)
length(properties, name, replaced) ==
  IF name \in DOMAIN properties /\ properties[name] >= 0 THEN properties[name]
  ELSE replaced

parsePageLayout(elements, defaults) ==
  LET read(section, properties) ==
        [name \in DOMAIN section |->
           LET value == length(properties, name, section[name])
           IN CASE name \in Margin ->
                     length(properties, name, length(properties, "margin", section[name]))
                [] value > 0 -> value
                [] OTHER -> section[name]]
  IN FoldLeft(read, defaults, elements)

names(elements) == {e.name : e \in ToSet(elements)}

(* Of the elements with a name, the last one is kept.                      *)
byName(elements, name) == Last(SelectSeq(elements, LAMBDA e : e.name = name))

firstName(elements) == IF elements = <<>> THEN {} ELSE {Head(elements).name}

PageStyleCatalog(pages) ==
  LET layouts == SelectSeq(pages.layouts, LAMBDA l : l.name # "")
      masters == SelectSeq(pages.masters, LAMBDA m : m.name # "" /\ m.layout # "")
  IN [layouts |->
        [n \in names(layouts) |->
           parsePageLayout(byName(layouts, n).properties, DefaultSection)],
      masterPageLayouts |-> [n \in names(masters) |-> byName(masters, n).layout],
      firstPageLayoutName |-> firstName(layouts),
      firstMasterPageName |-> firstName(masters)]

-----------------------------------------------------------------------------
(* The styles of all paragraphs and tables, at any depth but inside of a   *)
(* table, in the order of the text.                                        *)
RECURSIVE appliedStyles(_)
appliedStyles(content) ==
  LET styles(e) ==
        CASE e.tag \in {"p", "h"} ->
               <<[family |-> "paragraph", style |-> e.style]>> \o appliedStyles(e.content)
          [] e.tag = "table" -> <<[family |-> "table", style |-> e.style]>>
          [] e.tag = "list" ->
               FlattenSeq([i \in DOMAIN e.items |-> appliedStyles(e.items[i].content)])
          [] "content" \in DOMAIN e -> appliedStyles(e.content)
          [] OTHER -> <<>>
  IN FlattenSeq([i \in DOMAIN content |-> styles(content[i])])

(* The master page of the first style that has one, and whether a style    *)
(* inherits too deeply among those that are looked at.                     *)
firstMasterOf(resolved) ==
  LET paged == {r \in resolved : "master" \in DOMAIN r.style.attributes}
  IN [master |-> {r.style.attributes["master"] :
                    r \in {p \in paged : \A q \in paged : p.at <= q.at}},
      tooDeep |-> \E r \in resolved : r.style.tooDeep /\ \A p \in paged : r.at <= p.at]

firstAppliedMasterPage(applied, styles) ==
  firstMasterOf({[at |-> i, style |-> resolveStyle(styles[applied[i].family],
                                                   applied[i].style)] :
                   i \in DOMAIN applied})

(* The layout that the applied master page leads to, or the first master   *)
(* page, or the first layout; with none, the section is as it was.         *)
selectedLayout(catalog, applied) ==
  LET layoutsOf(masters) ==
        {catalog.masterPageLayouts[m] : m \in masters \cap DOMAIN catalog.masterPageLayouts}
          \cap DOMAIN catalog.layouts
      orElse(first, second) == IF first # {} THEN first ELSE second
      selected == orElse(layoutsOf(applied.master),
                         orElse(layoutsOf(catalog.firstMasterPageName),
                                catalog.firstPageLayoutName))
  IN IF DOMAIN catalog.layouts = {} THEN [section |-> DefaultSection, failed |-> FALSE]
     ELSE [section |-> catalog.layouts[CHOOSE name \in selected : TRUE],
           failed |-> applied.tooDeep]

selectPageLayout(body, styles, pages) ==
  selectedLayout(PageStyleCatalog(pages),
                 firstAppliedMasterPage(appliedStyles(body), styles))

(* The one layout and the one master page that are written; every style of *)
(* a paragraph applies the latter.                                         *)
writePages(section) ==
  [layouts |-> <<[name |-> "IGDPageLayout", properties |-> <<section>>]>>,
   masters |-> <<[name |-> StandardPage, layout |-> "IGDPageLayout"]>>]
=============================================================================
