------------------------------- MODULE Datamodel -------------------------------
(***************************************************************************)
(* The data sets of machine learning (ml/base) and the files they are      *)
(* loaded from, MNIST's (ml/project/mnist) among them.  A sample is        *)
(* [feature, more], where "more" is <<>>, <<label>>, <<value>> or the      *)
(* target; a data model is [dim, extra, samples], where "extra" is <<>> or *)
(* <<numClass>> or <<targetDim>>.                                          *)
(***************************************************************************)
EXTENDS Streams, LinearAlgebra

DataOf(dim, extra, samples) == [dim |-> dim, extra |-> extra, samples |-> samples]
Sample(feature, more) == [feature |-> feature, more |-> more]

HeadOf(model) == <<Len(model.samples), model.dim>> \o model.extra

GetDesignMatrix(model) == MatrixOf(Len(model.samples), model.dim, LAMBDA i, j : model.samples[i].feature[j])
GetValueVector(model) == [i \in DOMAIN model.samples |-> model.samples[i].more[1]]
-----------------------------------------------------------------------------
(* Files.                                                                  *)

ToText(model) ==
    WriteLine(HeadOf(model))
    \o FlattenSeq([i \in DOMAIN model.samples |->
           LET s == model.samples[i]
               more == IF s.more = <<>> THEN <<>> ELSE <<Char("|")>> \o WriteNumbers(s.more, <<Char(",")>>)
           IN WriteNumbers(s.feature, <<Char(",")>>) \o more \o <<Char("\n")>>])

ToBinary(model, width) ==
    WriteBinaries(HeadOf(model), Narrow)
    \o FlattenSeq([i \in DOMAIN model.samples |->
           WriteBinaries(model.samples[i].feature, Wide) \o WriteBinaries(model.samples[i].more, width)])

\* The numbers of a head of n are followed by those of the samples, of which
\* "size" are more(head).
FromNumbers(stream, n, size) ==
    LET head == SubSeq(stream.read, 1, n)
        dim == head[2]
        begin(i) == n + (i - 1) * (dim + size)
    IN IF stream.failed THEN [failed |-> TRUE]
       ELSE DataOf(dim, SubSeq(head, 3, n), [i \in 1..head[1] |->
                Sample(SubSeq(stream.read, begin(i) + 1, begin(i) + dim),
                       SubSeq(stream.read, begin(i) + dim + 1, begin(i) + dim + size))])

TextAfter(head, n, more(_)) ==
    LET size == more(head.read)
        numbers(s, k) == ReadChar(ReadNumbers(s, k, 1))
        sample(s) == numbers(IF size = 0 THEN s ELSE numbers(s, head.read[2]), IF size = 0 THEN head.read[2] ELSE size)
    IN IF head.failed THEN [failed |-> TRUE] ELSE FromNumbers(Times(sample, head, head.read[1]), n, size)

FromText(file, n, more(_)) == TextAfter(ReadLine(Open(file), n), n, more)

BinaryAfter(head, n, more(_), width) ==
    LET size == more(head.read)
        sample(s) == ReadBinaries(ReadBinaries(s, head.read[2], Wide), size, width)
    IN IF head.failed THEN [failed |-> TRUE] ELSE FromNumbers(Times(sample, head, head.read[1]), n, size)

FromBinary(file, n, more(_), width) == BinaryAfter(ReadBinaries(Open(file), n, Narrow), n, more, width)

DatamodelWriteToTextFile(model) == ToText(model)
DatamodelWriteToBinaryFile(model) == ToBinary(model, Narrow)
DatamodelLoadFromTextFile(file) == FromText(file, 2, LAMBDA head : 0)
DatamodelLoadFromBinaryFile(file) == FromBinary(file, 2, LAMBDA head : 0, Narrow)

ClassificationWriteToTextFile(model) == ToText(model)
ClassificationWriteToBinaryFile(model) == ToBinary(model, Narrow)
ClassificationLoadFromTextFile(file) == FromText(file, 3, LAMBDA head : 1)
ClassificationLoadFromBinaryFile(file) == FromBinary(file, 3, LAMBDA head : 1, Narrow)

RegressionWriteToTextFile(model) == ToText(model)
RegressionWriteToBinaryFile(model) == ToBinary(model, Wide)
RegressionLoadFromTextFile(file) == FromText(file, 2, LAMBDA head : 1)
RegressionLoadFromBinaryFile(file) == FromBinary(file, 2, LAMBDA head : 1, Wide)

SupervisedWriteToTextFile(model) == ToText(model)
SupervisedWriteToBinaryFile(model) == ToBinary(model, Wide)
SupervisedLoadFromTextFile(file) == FromText(file, 3, LAMBDA head : head[3])
SupervisedLoadFromBinaryFile(file) == FromBinary(file, 3, LAMBDA head : head[3], Wide)

\* A label becomes a target that is 1 at its class, where "one" is 1.
SupervisedOf(model, one) ==
    LET target(label) == [c \in 1..model.extra[1] |-> IF c = label + 1 THEN one ELSE 0]
    IN [model EXCEPT !.samples = [i \in DOMAIN @ |-> Sample(@[i].feature, target(@[i].more[1]))]]
-----------------------------------------------------------------------------
(* MnistPrepare.  The files are big-endian.                                *)

ImageMagic == 2051
LabelMagic == 2049

\* The stream's int32, in ReverseByteOrder.
ReadReversed(s) ==
    IF s.failed \/ Len(s.rest) < Narrow THEN Failed(s)
    ELSE Got(s, FromBytes(Reverse(SubSeq(s.rest, 1, Narrow))), Narrow)

ReadByte(s) == IF s.failed \/ s.rest = <<>> THEN Failed(s) ELSE Got(s, Head(s.rest), 1)

\* magic, numSample, rows and cols, and the pixels.
ReadPixels(head) ==
    IF head.failed \/ head.read[1] # ImageMagic THEN Failed(head)
    ELSE Times(ReadByte, head, head.read[2] * head.read[3] * head.read[4])

ReadImages(file) == ReadPixels(Times(ReadReversed, Open(file), 4))

ReadDigits(head) ==
    IF head.failed \/ head.read[1] # LabelMagic THEN Failed(head) ELSE Times(ReadByte, head, head.read[2])

ReadLabels(file) == ReadDigits(Times(ReadReversed, Open(file), 2))

\* Features are kept in 255ths.
FeaturesOf(images) ==
    LET size == images.read[3] * images.read[4]
    IN [i \in 1..images.read[2] |-> SubSeq(images.read, 4 + (i - 1) * size + 1, 4 + i * size)]

WriteSupervised(images, labels) ==
    LET features == FeaturesOf(images)
    IN IF images.failed \/ labels.failed \/ images.read[2] # labels.read[2] THEN [failed |-> TRUE]
       ELSE [file |-> ClassificationWriteToBinaryFile(
                 DataOf(images.read[3] * images.read[4], <<10>>,
                        [i \in DOMAIN features |-> Sample(features[i], <<labels.read[i + 2]>>)])),
             failed |-> FALSE]

PrepareSupervised(imageFile, labelFile) == WriteSupervised(ReadImages(imageFile), ReadLabels(labelFile))

WriteUnsupervised(images) ==
    LET features == FeaturesOf(images)
    IN IF images.failed THEN [failed |-> TRUE]
       ELSE [file |-> DatamodelWriteToBinaryFile(
                 DataOf(images.read[3] * images.read[4], <<>>, [i \in DOMAIN features |-> Sample(features[i], <<>>)])),
             failed |-> FALSE]

PrepareUnsupervised(imageFile) == WriteUnsupervised(ReadImages(imageFile))

\* The pixels of each picture, by column and row.
PicturesOf(images) ==
    LET rows == images.read[3]
        cols == images.read[4]
        pixel(i, c, r) == images.read[4 + i * rows * cols + r * cols + c + 1]
    IN IF images.failed THEN [failed |-> TRUE]
       ELSE [images |-> [i \in 0..images.read[2] - 1 |->
                 [p \in (0..cols - 1) \X (0..rows - 1) |-> pixel(i, p[1], p[2])]],
             failed |-> FALSE]

PrepareImages(imageFile) == PicturesOf(ReadImages(imageFile))
=============================================================================
