------------------------------- MODULE ImageProc -------------------------------
(***************************************************************************)
(* The JNI decoder, ImageProc.c: an application of libjpeg that has a      *)
(* whole picture in memory and looks at no return code.  It decodes each   *)
(* picture with an object of its own into an array that is kept from       *)
(* picture to picture, and copies the array to the bitmap of the view.     *)
(* All pictures are as wide as the bitmap, and as high as the first one.   *)
(***************************************************************************)
EXTENDS JpegDecompress

CONSTANTS
  BITMAP_HEIGHT,        \* the height of the bitmap of the view, from its setResolution
  MAX_Y                 \* a bound on the rows counted by a loop that does not end, no less than a picture's

ASSUME BoundAssumption == MAX_Y \in Nat

VARIABLES
  pictures,             \* the pictures that are still to come
  at,                   \* where pixeltobmp is
  picture,              \* the number of the picture
  rgb,                  \* the array: what each row shows; NULL
  IMG_HEIGHT,           \* the height it was made for
  jpegbuffer,           \* the line read last
  y,                    \* the row it goes to
  bitmap,
  intact                \* the last picture that went whole into the array, or 0

imageVars == <<pictures, at, picture, rgb, IMG_HEIGHT, jpegbuffer, y, bitmap, intact>>

NULL == <<>>
Garbage == <<0, 0>>
StandardTable == 9      \* the version of the tables of my_jpeg_odml_dht

Row(k, line) == <<k, line>>

\* A place in pixeltobmp; "off" where it is not the application, "crashed" when the process has died.
Goto(place) == at' = place

\* jpeg_create_decompress zeroes the object of the last picture: but for the source, the state is that of
\* DecompressInit again.
CreateDecompress ==
  /\ unread_marker' = FALSE
  /\ saw_SOI' = FALSE /\ saw_SOF' = FALSE /\ frame' = NoFrame /\ scan' = NoScan
  /\ quant_tbl' = [s \in SLOTS |-> None] /\ huff_tbl' = [s \in SLOTS |-> None]
  /\ input_scan_number' = 0 /\ output_scan_number' = 0 /\ inheaders' = 1
  /\ block_size' = None /\ has_multiple_scans' = FALSE /\ eoi_reached' = FALSE
  /\ consume_input' = "consume_markers"
  /\ quant_table' = <<>> /\ coef_bits' = <<>> /\ coef' = <<>>
  /\ input_iMCU_row' = 0 /\ MCU_vert_offset' = 0
  /\ setting' = default_decompress_parms
  /\ idct_table' = <<>> /\ decompress_data' = "none" /\ output_iMCU_row' = 0
  /\ start_pass_main /\ upsample' = NewUpsampler /\ start_pass_dpost("JBUF_PASS_THRU")
  /\ whole_image' = <<>> /\ output_scanline' = 0 /\ lines' = <<>> /\ shown' = <<>>
  /\ global_state' = "START" /\ call' = NoCall /\ max_lines' = 0 /\ error' = NoError
  /\ is_dummy_pass' = FALSE /\ colormap' = FALSE /\ enable_quant' = {} /\ premature' = FALSE

\* All data of a picture are at hand, and no more are to come.
jpeg_memory_src(data) == stream' = data /\ pos' = 1 /\ UNCHANGED whole

\* The heights a picture's data say it has.
SofHeights(data) == {data[i].height : i \in {j \in DOMAIN data : data[j].t = "SOF"}}

\* A new picture from the Java side.
pixeltobmp ==
  /\ at = "idle" /\ pictures # <<>>
  /\ CreateDecompress /\ jpeg_memory_src(Head(pictures))
  /\ pictures' = Tail(pictures)
  /\ picture' = picture + 1
  /\ Goto("header")
  /\ UNCHANGED <<rgb, IMG_HEIGHT, jpegbuffer, y, bitmap, intact>>

ReadPictureHeader ==
  /\ at = "header"
  /\ jpeg_read_header
  /\ Goto("start")
  /\ UNCHANGED <<pictures, picture, rgb, IMG_HEIGHT, jpegbuffer, y, bitmap, intact>>

\* Puts the standard tables into the first two slots, whether the picture brought its own or not.
my_jpeg_load_dht == huff_tbl' = [s \in SLOTS |-> IF s \in {0, 1} THEN StandardTable ELSE huff_tbl[s]]

SetParameters ==
  /\ at = "start" /\ Idle
  /\ setting' = [setting EXCEPT !.jpeg_color_space = "YCbCr"]
  /\ my_jpeg_load_dht
  /\ Goto("alloc")
  /\ UNCHANGED <<source, reader, seen, quant_tbl, setup, pass, scans, progress, coef, error, idct_table,
                 decompress_data, output_iMCU_row, main, upsample, post, whole_image, output_scanline,
                 lines, shown, control, master, premature>>
  /\ UNCHANGED <<pictures, picture, rgb, IMG_HEIGHT, jpegbuffer, y, bitmap, intact>>

StartPicture ==
  /\ at = "alloc"
  /\ jpeg_start_decompress \/ BadState("jpeg_start_decompress")
  /\ Goto("lines")
  /\ y' = -1
  /\ UNCHANGED <<pictures, picture, rgb, IMG_HEIGHT, jpegbuffer, bitmap, intact>>

\* The array is made for the first picture.
AllocateArray ==
  /\ at = "lines" /\ Idle /\ y = -1
  /\ IF rgb = NULL THEN /\ IMG_HEIGHT' = frame.height
                        /\ rgb' = [r \in 1..frame.height |-> Garbage]
                   ELSE UNCHANGED <<IMG_HEIGHT, rgb>>
  /\ y' = 0
  /\ jpegbuffer' = Garbage
  /\ UNCHANGED <<decompressVars, pictures, at, picture, bitmap, intact>>

ReadLine ==
  /\ at = "lines" /\ y >= 0
  /\ Idle /\ output_scanline < frame.height
  /\ jpeg_read_scanlines(1) \/ BadState("jpeg_read_scanlines")
  /\ Goto("copy")
  /\ UNCHANGED <<pictures, picture, rgb, IMG_HEIGHT, jpegbuffer, y, bitmap, intact>>

\* Mutant: the row is counted before the line is copied.
CopyLineLate ==
  /\ at = "copy" /\ Idle
  /\ jpegbuffer' = IF output_scanline > 0 THEN Row(picture, lines[output_scanline]) ELSE Garbage
  /\ rgb' = [r \in DOMAIN rgb |-> IF r = y + 2 THEN jpegbuffer' ELSE rgb[r]]
  /\ y' = Smallest({y + 1, MAX_Y})
  /\ Goto("lines")
  /\ UNCHANGED <<decompressVars, pictures, picture, IMG_HEIGHT, bitmap, intact>>

\* One line of the array per call, whether the call gave one or not: in the loop that gets no more
\* lines the rows leave the array, and the process may die of what it overwrites.
CopyLine ==
  /\ at = "copy" /\ Idle
  /\ jpegbuffer' = IF output_scanline > 0 THEN Row(picture, lines[output_scanline]) ELSE Garbage
  /\ rgb' = [r \in DOMAIN rgb |-> IF r = y + 1 THEN jpegbuffer' ELSE rgb[r]]
  /\ y' = Smallest({y + 1, MAX_Y})
  /\ Goto("lines") \/ (y + 1 \notin DOMAIN rgb /\ Goto("crashed"))
  /\ UNCHANGED <<decompressVars, pictures, picture, IMG_HEIGHT, bitmap, intact>>

FinishPicture ==
  /\ at = "lines" /\ y >= 0
  /\ Idle /\ output_scanline >= frame.height
  /\ jpeg_finish_decompress
  /\ Goto("finish")
  /\ intact' = picture
  /\ UNCHANGED <<pictures, picture, rgb, IMG_HEIGHT, jpegbuffer, y, bitmap>>

\* my_error_exit jumps out of the call and of processimage, from wherever they are.
my_error_exit ==
  /\ at \in {"header", "start", "alloc", "lines", "copy", "finish"}
  /\ error # NoError
  /\ Goto("bitmap")
  /\ error' = NoError
  /\ Return
  /\ UNCHANGED <<source, reader, seen, tables, setup, pass, scans, progress, coef, outputVars, global_state, max_lines,
                 master, premature>>
  /\ UNCHANGED <<pictures, picture, rgb, IMG_HEIGHT, jpegbuffer, y, bitmap, intact>>

\* The rest of pixeltobmp: the array goes to the bitmap if they are of one size.  There is none where
\* the first picture after freeCameraMemory failed before its lines, and the sizes are still there.
CopyToBitmap ==
  /\ at = "bitmap" \/ (at = "finish" /\ Idle)
  /\ IF IMG_HEIGHT # BITMAP_HEIGHT THEN Goto("idle") /\ UNCHANGED bitmap
     ELSE IF rgb # NULL THEN Goto("idle") /\ bitmap' = rgb
     ELSE Goto("crashed") /\ UNCHANGED bitmap
  /\ UNCHANGED <<decompressVars, pictures, picture, rgb, IMG_HEIGHT, jpegbuffer, y, intact>>

\* The view goes away between two pictures; the sizes stay.
freeCameraMemory ==
  /\ at = "idle"
  /\ rgb # NULL
  /\ rgb' = NULL
  /\ intact' = 0
  /\ UNCHANGED <<decompressVars, pictures, at, picture, IMG_HEIGHT, jpegbuffer, y, bitmap>>

ImageInit(feed) ==
  /\ pictures = feed
  /\ picture = 0
  /\ rgb = NULL /\ IMG_HEIGHT = -1
  /\ jpegbuffer = Garbage /\ y = -1
  /\ bitmap = NULL
  /\ intact = 0

Decoding == at \notin {"off", "idle", "crashed"}

\* What processimage and pixeltobmp do until they return.
ProcessImage ==
  \/ Decoding /\ LibraryStep(TRUE) /\ UNCHANGED imageVars
  \/ ReadPictureHeader
  \/ SetParameters
  \/ StartPicture
  \/ AllocateArray
  \/ ReadLine
  \/ CopyLine
  \/ FinishPicture
  \/ my_error_exit
  \/ CopyToBitmap

-----------------------------------------------------------------------------
(* Properties *)

\* The bitmap shows one picture, and the right one: once a picture of its size has gone into the
\* array whole, each return of pixeltobmp leaves all lines of the last such picture in their places,
\* whatever the pictures after it held.
BitmapIsOnePicture ==
  at = "idle" /\ intact # 0 /\ IMG_HEIGHT = BITMAP_HEIGHT =>
    bitmap = [r \in 1..IMG_HEIGHT |-> Row(intact, r - 1)]

\* The data of the picture goes on to the marker that ends it.
Ends == \E i \in DOMAIN stream : stream[i].t = "EOI"
=============================================================================
