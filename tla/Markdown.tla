------------------------------ MODULE Markdown ------------------------------
(***************************************************************************)
(* How the code analysis page reads the Markdown a language model or the   *)
(* MCP server wrote (src/code-logic.js): blocks of a report, a document    *)
(* wrapped in one code fence, and the table of projects.                   *)
(*                                                                         *)
(* A document is a sequence of lines, and a line is one of the kinds that  *)
(* the patterns of the code tell apart:                                    *)
(*   fence, fenceMd,             ``` without or with a language, which is  *)
(*   fenceCode, fenceJs          one of documents, code or another         *)
(*   indented                    a fence after white space                 *)
(*   marker                      ```, # or - without what makes a block    *)
(*   rule, stars                 --- (also a divider of tables), ***       *)
(*   aligned                     :--:, a divider but no rule               *)
(*   row, divider                a line with |, a line |---|---|           *)
(*   headingStrong               a heading with strong text                *)
(*   headingRow, bulletRow, ...  what the name says, with | in its text    *)
(* The patterns overlap: a line with | may be a heading, an item of a list *)
(* or a quote, and which block takes it depends on the lines before it.    *)
(***************************************************************************)
EXTENDS Integers, Sequences, FiniteSets, SequencesExt

Fences == {"fence", "fenceMd", "fenceCode", "fenceJs", "indented"}

Headings == {"heading", "headingRow", "headingStrong"}

Bullets == {"bullet", "bulletRow"}

Numbers == {"number", "numberRow"}

Quotes == {"quote", "quoteRow"}

Strongs == {"strong", "strongRow", "headingStrong"}

Markers == {"marker", "markerRow"}

Piped == {"row", "divider", "headingRow", "bulletRow", "numberRow", "quoteRow", "strongRow", "markerRow"}

Lines == {"blank", "text", "rule", "stars", "aligned"} \cup Fences \cup Headings \cup Bullets
            \cup Numbers \cup Quotes \cup Strongs \cup Markers \cup Piped

\* The line that ends a code block has no language.
IsClosing(line) == line \in {"fence", "indented"}

IsBlank(line) == line = "blank"

IsRule(line) == line \in {"rule", "stars"}

HasPipe(line) == line \in Piped

IsTableDivider(line) == line \in {"rule", "divider", "aligned"}

StartsTable(lines, i) ==
    HasPipe(lines[i]) /\ i < Len(lines) /\ IsTableDivider(lines[i + 1])

-----------------------------------------------------------------------------
(* parseSafeMarkdown *)

\* The first position from i on that is not in S.
FirstOutside(S, i, n) == CHOOSE j \in i..(n + 1) : j \notin S /\ i..(j - 1) \subseteq S

\* Mistake: only a blank line ends a paragraph.
InParagraphUntilBlank(lines, i) == lines[i] # "blank"

\* What a paragraph goes on with: rules and dividers do not end it.
InParagraph(lines, i) ==
    /\ lines[i] \notin {"blank"} \cup Markers \cup Headings \cup Bullets \cup Numbers \cup Quotes \cup Fences
    /\ ~StartsTable(lines, i)

\* What the loop at line i looks for: items of the same order, or a quote.
Alike(line) ==
    CASE line \in Bullets -> Bullets
      [] line \in Numbers -> Numbers
      [] OTHER -> Quotes

\* The block a line begins, in the order of the tests.
BlockType(lines, i) ==
    LET line == lines[i]
    IN IF line \in Fences THEN "codeBlock"
       ELSE IF line \in Headings THEN "heading"
       ELSE IF IsRule(line) THEN "rule"
       ELSE IF StartsTable(lines, i) THEN "table"
       ELSE IF line \in Bullets \cup Numbers THEN "list"
       ELSE IF line \in Quotes THEN "quote"
       ELSE "paragraph"

\* The position after the block that begins at i.  The closing fence belongs to
\* its block; without one the code reaches to the end.  A table goes on with every
\* line that has |, a list with every item, whatever else they begin.
BlockEnd(lines, i) ==
    LET n == Len(lines)
        code == {j \in 1..n : ~IsClosing(lines[j])}
        table == {j \in 1..n : HasPipe(lines[j])}
        alike == {j \in 1..n : lines[j] \in Alike(lines[i])}
        paragraph == {j \in 1..n : InParagraph(lines, j)}
        closing == FirstOutside(code, i + 1, n)
        type == BlockType(lines, i)
    IN CASE type = "codeBlock" -> IF closing <= n THEN closing + 1 ELSE closing
         [] type \in {"heading", "rule"} -> i + 1
         [] type = "table" -> FirstOutside(table, i + 2, n)
         [] type \in {"list", "quote"} -> FirstOutside(alike, i + 1, n)
         [] type = "paragraph" -> FirstOutside(paragraph, i + 1, n)

\* Blocks with the lines they were made from.
ParseSafeMarkdown(lines) ==
    LET n == Len(lines)
        parse[i \in 1..(n + 1)] ==
            IF i = n + 1 THEN <<>>
            ELSE IF IsBlank(lines[i]) THEN parse[i + 1]
            ELSE LET end == BlockEnd(lines, i)
                 IN <<[type |-> BlockType(lines, i), first |-> i, last |-> end - 1]>> \o parse[end]
    IN parse[1]

-----------------------------------------------------------------------------
(* unwrapMarkdownDocumentFence *)

\* trim(): blank lines go at both ends, and the white space before the first.
Trim(lines) ==
    LET solid == {i \in DOMAIN lines : lines[i] # "blank"}
        first == CHOOSE i \in solid : \A j \in solid : i <= j
        last == CHOOSE i \in solid : \A j \in solid : j <= i
        unindent(line) == IF line = "indented" THEN "fence" ELSE line
    IN IF solid = {} THEN <<>>
       ELSE <<unindent(lines[first])>> \o SubSeq(lines, first + 1, last)

\* A heading and one signal more, on the same line or on another.
HasMarkdownDocumentStructure(lines) ==
    /\ \E i \in DOMAIN lines : lines[i] \in Headings
    /\ \E i \in DOMAIN lines :
          lines[i] \in Bullets \cup Numbers \cup Quotes \cup Strongs \/ StartsTable(lines, i)

WrapperLanguages == {"fence", "fenceMd", "fenceCode"}

\* A document as a whole inside one fence is shown as a document.
UnwrapMarkdownDocumentFence(value) ==
    LET lines == Trim(value)
        n == Len(lines)
        inner == SubSeq(lines, 2, n - 1)
        body == Trim(inner)
    IN IF /\ n >= 3
          /\ lines[1] \in WrapperLanguages /\ lines[n] = "fence"
          /\ \A i \in DOMAIN inner : inner[i] \notin Fences \ {"indented"}
          /\ lines[1] = "fenceMd" \/ HasMarkdownDocumentStructure(body)
       THEN body
       ELSE lines

-----------------------------------------------------------------------------
(* parseProjects *)

\* Rows of the answer to list_projects: a header with the required columns, any
\* other header, a project, a row without identifier or absolute path.
ProjectLines == {"text", "header", "otherHeader", "project", "badRow", "tableDivider"}

\* Mistake: the columns of one table are used for the next.
ColumnsAfterTextKept(columns) == columns

ColumnsAfterText(columns) == FALSE

ParseProjects(lines) ==
    LET n == Len(lines)
        Heads(i) == i < n /\ lines[i + 1] = "tableDivider"
        \* scan[i]: the positions of projects from line i on, with columns known or not.
        scan[i \in 1..(n + 1)] == [columns \in BOOLEAN |->
            IF i = n + 1 THEN {}
            ELSE IF lines[i] = "text" THEN scan[i + 1][ColumnsAfterText(columns)]
            ELSE IF Heads(i) THEN scan[i + 2][lines[i] = "header"]
            ELSE (IF columns /\ lines[i] = "project" THEN {i} ELSE {}) \cup scan[i + 1][columns]]
    IN scan[1][FALSE]

-----------------------------------------------------------------------------
(* What is expected of them *)

\* Every line that is not blank is in one block, in the order of the document,
\* so that nothing of a report is lost or shown twice; a blank line is inside code.
BlocksCover(lines) ==
    LET blocks == ParseSafeMarkdown(lines)
    IN /\ \A b, c \in DOMAIN blocks : b < c => blocks[b].last < blocks[c].first
       /\ \A i \in DOMAIN lines :
             LET around == {b \in DOMAIN blocks : blocks[b].first <= i /\ i <= blocks[b].last}
             IN IF lines[i] = "blank"
                THEN \A b \in around : blocks[b].type = "codeBlock"
                ELSE Cardinality(around) = 1

\* The lines of a block are what its type says: in a table each line has |, in a list
\* each is an item of the same order, in code none but the last is a closing fence.  No
\* heading, item, quote, fence or table begins inside a paragraph.  Not excluded: a rule
\* in a paragraph, which goes on over it, and a line that would begin another block in a
\* table, if it has |, or in a list or a quote, if it begins a table.
LinesFitBlocks(lines) ==
    LET blocks == ParseSafeMarkdown(lines)
    IN \A b \in DOMAIN blocks : \A i \in (blocks[b].first + 1)..blocks[b].last :
          LET first == blocks[b].first
              line == lines[i]
          IN CASE blocks[b].type = "codeBlock" -> i < blocks[b].last => ~IsClosing(line)
               [] blocks[b].type = "table" -> IF i = first + 1 THEN IsTableDivider(line) ELSE HasPipe(line)
               [] blocks[b].type = "list" -> {lines[first], line} \subseteq Bullets
                                             \/ {lines[first], line} \subseteq Numbers
               [] blocks[b].type = "quote" -> line \in Quotes
               [] blocks[b].type = "paragraph" ->
                     /\ line \notin Headings \cup Bullets \cup Numbers \cup Quotes \cup Fences
                     /\ ~StartsTable(lines, i)
               [] OTHER -> FALSE

\* No block is broken in two: of two blocks of one type without a line between them the
\* first is a heading, a rule or code with its closing fence, or they are lists of
\* different order, or the second is a paragraph that begins with a marker.
BlocksAreWhole(lines) ==
    LET blocks == ParseSafeMarkdown(lines)
    IN \A b, c \in DOMAIN blocks :
          LET one == blocks[b]
              two == blocks[c]
          IN one.last + 1 = two.first /\ one.type = two.type =>
                CASE one.type \in {"heading", "rule"} -> TRUE
                  [] one.type = "codeBlock" -> one.first < one.last /\ IsClosing(lines[one.last])
                  [] one.type = "list" -> lines[one.first] \in Bullets <=> lines[two.first] \in Numbers
                  [] one.type = "paragraph" -> lines[two.first] \in Markers
                  [] OTHER -> FALSE

\* Unwrapping once is enough, and only a fence around the whole document goes.
UnwrapIsFinal(lines) ==
    LET once == UnwrapMarkdownDocumentFence(lines)
    IN /\ UnwrapMarkdownDocumentFence(once) = once
       /\ Contains(lines, "fenceJs") => Contains(once, "fenceJs")

\* A project is listed exactly if its table, all rows from the header on, has the
\* required columns.  Dividers do not follow each other.
RowsHaveColumns(lines) ==
    LET Heads(h) == h < Len(lines) /\ lines[h] # "text" /\ lines[h + 1] = "tableDivider"
        Listed(i) == /\ lines[i] = "project" /\ ~Heads(i)
                     /\ \E h \in 1..(i - 1) :
                           /\ Heads(h) /\ lines[h] = "header"
                           /\ \A k \in h..i : lines[k] # "text"
                           /\ \A k \in (h + 1)..i : ~Heads(k)
    IN (\A i \in DOMAIN lines : Heads(i) => lines[i] # "tableDivider")
          => ParseProjects(lines) = {i \in DOMAIN lines : Listed(i)}
=============================================================================
